---- MODULE Spec2Model ----
(***************************************************************************)
(* The simulation core of src/src/main.rs (GameState and the main loop)    *)
(* as a state machine.  One Tick is one call of GameState::update with the *)
(* keys and the frame time of that frame; MenuStart is the menu branch of  *)
(* main that builds a GameState and calls start_game.                      *)
(*                                                                         *)
(* Time is counted in units of 1/300 s, in which every timer constant of   *)
(* the source is a whole number (0.27 = 81, 0.3 = 90, 0.2 = 60, 0.1 = 30,  *)
(* 1/2 = 150, 1/3 = 100, 1/4 = 75, 1/15 = 20).  The f32 timers are         *)
(* modelled by exact arithmetic on these units.                            *)
(*                                                                         *)
(* A cell's color is a function of its type tag (NES_COLORS[t_type],       *)
(* GOLD_COLOR for BonusGold, SILVER_COLOR for BonusSilver), so a cell is   *)
(* modelled by its type tag and owner id; an empty cell (None) has the tag *)
(* "None".  The board is a sequence of GRID_HEIGHT rows of GRID_WIDTH      *)
(* cells; sequences count from 1, so the source's board[y][x] is           *)
(* board[y + 1][x + 1], written At(board, x, y).                           *)
(***************************************************************************)
EXTENDS Integers, Sequences, FiniteSets, TLC

GRID_WIDTH == 10
GRID_HEIGHT == 20
INITIAL_HORIZONTAL_DELAY == 60
HORIZONTAL_REPEAT_DELAY == 30
SOFT_DROP_INTERVAL == 20
LINE_CLEAR_DELAY == 81
BLINK_PERIOD == 90
BLINK_COUNT == 6
GOLD_POINTS == 500
SILVER_POINTS == 200

PieceTypes == <<"I", "O", "T", "S", "Z", "J", "L">>

TetrominoType == {PieceTypes[i] : i \in 1..7}

BonusTypes == {"BonusGold", "BonusSilver"}

Difficulty == {"Easy", "Normal", "Hard"}

TETROMINO_SHAPES ==
  [I |-> <<<<0,0>>, <<1,0>>, <<2,0>>, <<3,0>>>>,
   O |-> <<<<0,0>>, <<1,0>>, <<0,1>>, <<1,1>>>>,
   T |-> <<<<1,0>>, <<0,1>>, <<1,1>>, <<2,1>>>>,
   S |-> <<<<1,0>>, <<2,0>>, <<0,1>>, <<1,1>>>>,
   Z |-> <<<<0,0>>, <<1,0>>, <<1,1>>, <<2,1>>>>,
   J |-> <<<<0,0>>, <<0,1>>, <<1,1>>, <<2,1>>>>,
   L |-> <<<<0,0>>, <<1,0>>, <<2,0>>, <<0,1>>>>]

TETROMINO_ROTATION_OFFSETS ==
  [I |-> <<1,0>>, O |-> <<0,0>>, T |-> <<1,1>>, S |-> <<1,1>>,
   Z |-> <<1,1>>, J |-> <<1,1>>, L |-> <<1,1>>]

(* Option<Tetromino>::None, and a board cell's None. *)
NoPiece == [shape |-> <<>>, pos |-> <<0, 0>>, t_type |-> "None"]

EmptyCell == [t |-> "None", id |-> 0]

SpawnPos == <<(GRID_WIDTH \div 2) - 2, 0>>

(* Tetromino::new *)
NewTetromino(t) == [shape |-> TETROMINO_SHAPES[t], pos |-> SpawnPos, t_type |-> t]

IsSome(p) == p.t_type # "None"

(* A faulty rotation, against which C29 is tested: the offsets are mirrored
   in the diagonal through the pivot. *)
rotate_shape_mirrored(shape, t_type, clockwise) ==
  LET pivot_x == TETROMINO_ROTATION_OFFSETS[t_type][1]
      pivot_y == TETROMINO_ROTATION_OFFSETS[t_type][2]
      turned(i) == <<pivot_x + (shape[i][2] - pivot_y),
                     pivot_y + (shape[i][1] - pivot_x)>>
  IN <<turned(1), turned(2), turned(3), turned(4)>>

(* rotate_shape *)
rotate_shape(shape, t_type, clockwise) ==
  LET pivot_x == TETROMINO_ROTATION_OFFSETS[t_type][1]
      pivot_y == TETROMINO_ROTATION_OFFSETS[t_type][2]
      turned(i) ==
        LET rel_x == shape[i][1] - pivot_x
            rel_y == shape[i][2] - pivot_y
        IN IF clockwise THEN <<pivot_x + rel_y, pivot_y - rel_x>>
                        ELSE <<pivot_x - rel_y, pivot_y + rel_x>>
  IN <<turned(1), turned(2), turned(3), turned(4)>>

InBounds(x, y) == x >= 0 /\ x < GRID_WIDTH /\ y >= 0 /\ y < GRID_HEIGHT

(* n copies of v, as a sequence. *)
Repeat(n, v) == [i \in 1..n |-> v]

EmptyRow == Repeat(GRID_WIDTH, EmptyCell)

EmptyBoard == Repeat(GRID_HEIGHT, EmptyRow)

(* board[y][x] of the source. *)
At(board, x, y) == board[y + 1][x + 1]

(* GameState::check_collision: the bounds test comes first, so the board is
   read only at an index inside it. *)
check_collision(board, shape, pos) ==
  \E i \in 1..4 :
     LET x == pos[1] + shape[i][1]
         y == pos[2] + shape[i][2]
     IN IF ~InBounds(x, y) THEN TRUE ELSE At(board, x, y).t # "None"

(* A faulty loop, against which C22 is tested: the board is indexed before
   the bounds are tested. *)
RECURSIVE collision_loop_unguarded(_, _, _, _, _)
collision_loop_unguarded(board, shape, pos, i, reads) ==
  IF i > 4 THEN [hit |-> FALSE, reads |-> reads]
  ELSE IF ~InBounds(pos[1] + shape[i][1], pos[2] + shape[i][2])
  THEN [hit |-> TRUE,
        reads |-> Append(reads, <<pos[1] + shape[i][1], pos[2] + shape[i][2]>>)]
  ELSE IF At(board, pos[1] + shape[i][1], pos[2] + shape[i][2]).t # "None"
  THEN [hit |-> TRUE,
        reads |-> Append(reads, <<pos[1] + shape[i][1], pos[2] + shape[i][2]>>)]
  ELSE collision_loop_unguarded(
         board, shape, pos, i + 1,
         Append(reads, <<pos[1] + shape[i][1], pos[2] + shape[i][2]>>))

(* GameState::check_collision as the loop runs, from the i-th offset on: hit
   is the value returned, reads the indices <<x, y>> at which the board was
   read, in their order. *)
RECURSIVE collision_loop(_, _, _, _, _)
collision_loop(board, shape, pos, i, reads) ==
  IF i > 4 THEN [hit |-> FALSE, reads |-> reads]
  ELSE IF ~InBounds(pos[1] + shape[i][1], pos[2] + shape[i][2])
  THEN [hit |-> TRUE, reads |-> reads]
  ELSE IF At(board, pos[1] + shape[i][1], pos[2] + shape[i][2]).t # "None"
  THEN [hit |-> TRUE,
        reads |-> Append(reads, <<pos[1] + shape[i][1], pos[2] + shape[i][2]>>)]
  ELSE collision_loop(
         board, shape, pos, i + 1,
         Append(reads, <<pos[1] + shape[i][1], pos[2] + shape[i][2]>>))

(* What the last update did, recorded for the properties: the calls it made,
   the piece slots around the hold block of process_input, the states around
   each spawn (tries), the piece around each rotation key (turns), and what
   the gravity block of update read (fell; down is is_key_down(Down)). *)
NoEvents ==
  [locks |-> <<>>, spawns |-> 0, failed_spawns |-> 0, scans |-> 0,
   created |-> <<>>, finalized |-> <<>>, toggles |-> <<>>, cleared |-> <<>>,
   drop |-> <<>>, gravity |-> "none", hold |-> <<>>,
   tries |-> <<>>, turns |-> <<>>, fell |-> <<>>, down |-> FALSE]

AllTypesZero == [I |-> 0, O |-> 0, T |-> 0, S |-> 0, Z |-> 0, J |-> 0, L |-> 0]

(* GameState::new.  Four fields are not fields of the source: panicked (the
   unwrap of process_input met None and the program aborted), swaps (the hold
   intents that changed a piece slot since the last successful spawn), ev, and
   trace (whether ev records tries, turns, fell and down; it is set by the
   initial state of a specification and never changes). *)
NewGameState ==
  [board |-> EmptyBoard,
   tetromino |-> NoPiece,
   next_tetromino |-> NoPiece,
   hold_tetromino |-> NoPiece,
   hold_used |-> FALSE,
   started |-> FALSE,
   paused |-> FALSE,
   game_over |-> FALSE,
   lines_cleared |-> 0,
   score |-> 0,
   left_timer |-> 0,
   right_timer |-> 0,
   fall_timer |-> 0,
   line_clear_timer |-> 0,
   clearing_lines |-> <<>>,
   active_squares |-> <<>>,
   next_piece_id |-> 1,
   piece_statistics |-> AllTypesZero,
   difficulty |-> "Normal",
   panicked |-> FALSE,
   swaps |-> 0,
   trace |-> FALSE,
   ev |-> NoEvents]

(* GameState::start_game; curr_type and next_type are the two draws of the
   random generator. *)
start_game(s, curr_type, next_type) ==
  [s EXCEPT !.started = TRUE,
            !.game_over = FALSE,
            !.paused = FALSE,
            !.lines_cleared = 0,
            !.score = 0,
            !.board = EmptyBoard,
            !.hold_tetromino = NoPiece,
            !.hold_used = FALSE,
            !.line_clear_timer = 0,
            !.clearing_lines = <<>>,
            !.active_squares = <<>>,
            !.next_piece_id = 1,
            !.piece_statistics = [AllTypesZero EXCEPT ![curr_type] = 1],
            !.tetromino = NewTetromino(curr_type),
            !.next_tetromino = NewTetromino(next_type)]

(* The row numbers 0 .. GRID_HEIGHT - 1, ascending. *)
RowsFrom(y) == [i \in 1..(GRID_HEIGHT - y) |-> y + i - 1]

AllRows == RowsFrom(0)

(* lock_tetromino: the rows of the board in which every cell is occupied,
   ascending. *)
FullRows(board) ==
  SelectSeq(AllRows,
            LAMBDA y : \A x \in 0..(GRID_WIDTH - 1) : At(board, x, y).t # "None")

SeqToSet(q) == {q[i] : i \in 1..Len(q)}

(* The fields a spawn can read or write. *)
SpawnView(s) ==
  [tetromino |-> s.tetromino, next_tetromino |-> s.next_tetromino,
   board |-> s.board, piece_statistics |-> s.piece_statistics,
   started |-> s.started, game_over |-> s.game_over, hold_used |-> s.hold_used,
   fall_timer |-> s.fall_timer]

(* The record of a spawn: pre and post are the states around it. *)
note_try(pre, post) ==
  IF post.trace
  THEN [post EXCEPT !.ev.tries = Append(@, [pre |-> SpawnView(pre),
                                            post |-> SpawnView(post)])]
  ELSE post

(* A faulty spawn, against which C11 is tested: the next piece is promoted
   without the collision test. *)
promote_unchecked(s, t_type) ==
  [s EXCEPT !.tetromino = s.next_tetromino,
            !.piece_statistics[s.next_tetromino.t_type] = @ + 1,
            !.next_tetromino = NewTetromino(t_type),
            !.hold_used = FALSE,
            !.fall_timer = 0,
            !.swaps = 0,
            !.ev.spawns = @ + 1]

(* A faulty spawn, against which C31 is tested: hold_used is left as it
   is. *)
promote_latched(s, t_type) ==
  IF check_collision(s.board, s.next_tetromino.shape, s.next_tetromino.pos)
  THEN [s EXCEPT !.game_over = TRUE, !.started = FALSE,
                 !.ev.failed_spawns = @ + 1]
  ELSE [s EXCEPT !.tetromino = s.next_tetromino,
                 !.piece_statistics[s.next_tetromino.t_type] = @ + 1,
                 !.next_tetromino = NewTetromino(t_type),
                 !.fall_timer = 0,
                 !.swaps = 0,
                 !.ev.spawns = @ + 1]

(* spawn_new_tetromino once started and a next piece are found. *)
promote(s, t_type) ==
  IF check_collision(s.board, s.next_tetromino.shape, s.next_tetromino.pos)
  THEN [s EXCEPT !.game_over = TRUE, !.started = FALSE,
                 !.ev.failed_spawns = @ + 1]
  ELSE [s EXCEPT !.tetromino = s.next_tetromino,
                 !.piece_statistics[s.next_tetromino.t_type] = @ + 1,
                 !.next_tetromino = NewTetromino(t_type),
                 !.hold_used = FALSE,
                 !.fall_timer = 0,
                 !.swaps = 0,
                 !.ev.spawns = @ + 1]

(* GameState::spawn_new_tetromino; t_type is the draw of the random
   generator for the piece after next. *)
spawn_new_tetromino(s, t_type) ==
  IF ~s.started THEN s
  ELSE IF ~IsSome(s.next_tetromino) THEN s
  ELSE note_try(s, promote(s, t_type))

(* The board with the cells of a piece written into it under owner id `id`;
   cells outside the board are skipped (lock_tetromino's loop). *)
WriteCell(board, tetro, id, i) ==
  IF InBounds(tetro.pos[1] + tetro.shape[i][1], tetro.pos[2] + tetro.shape[i][2])
  THEN [board EXCEPT ![tetro.pos[2] + tetro.shape[i][2] + 1]
                      [tetro.pos[1] + tetro.shape[i][1] + 1] =
                        [t |-> tetro.t_type, id |-> id]]
  ELSE board

WritePiece(board, tetro, id) ==
  WriteCell(WriteCell(WriteCell(WriteCell(board, tetro, id, 1), tetro, id, 2),
                      tetro, id, 3),
            tetro, id, 4)

(* check_for_4x4_squares, the test of one top-left (x, y): every cell of the
   region is occupied by a cell that is not a bonus cell. *)
all_filled(board, x, y) ==
  \A dy \in 0..3 : \A dx \in 0..3 :
     /\ At(board, x + dx, y + dy).t # "None"
     /\ At(board, x + dx, y + dy).t \notin BonusTypes

(* check_for_4x4_squares: the owner ids met in the region. *)
pieces_in_region(board, x, y) ==
  {At(board, x + dx, y + dy).id : dy \in 0..3, dx \in 0..3}

(* check_for_4x4_squares: no occupied cell of the whole board that carries one
   of the ids lies outside the region. *)
contained(board, x, y, ids) ==
  \A row \in 0..(GRID_HEIGHT - 1) : \A col \in 0..(GRID_WIDTH - 1) :
     (At(board, col, row).t # "None" /\ At(board, col, row).id \in ids)
     => ~(col < x \/ col >= x + 4 \/ row < y \/ row >= y + 4)

(* A faulty validation, against which C4 is tested: the containment of the
   pieces is not looked at. *)
candidate_unchecked(board, x, y) == pieces_in_region(board, x, y) # {}

candidate_valid(board, x, y) == contained(board, x, y, pieces_in_region(board, x, y))

(* check_for_4x4_squares: the type recorded for a piece of the region is the
   type of its first cell in the region, rows first. *)
FirstCellOf(board, x, y, pid) ==
  CHOOSE i \in 0..15 :
     /\ At(board, x + (i % 4), y + (i \div 4)).id = pid
     /\ \A j \in 0..(i - 1) : At(board, x + (j % 4), y + (j \div 4)).id # pid

TypeAtIndex(board, x, y, i) == At(board, x + (i % 4), y + (i \div 4)).t

FirstTypeOf(board, x, y, pid) == TypeAtIndex(board, x, y, FirstCellOf(board, x, y, pid))

(* A faulty classification, against which C21 is tested: the types are not
   compared. *)
all_same_unread(board, x, y) == pieces_in_region(board, x, y) # {}

all_same(board, x, y) ==
  \A p, q \in pieces_in_region(board, x, y) :
     FirstTypeOf(board, x, y, p) = FirstTypeOf(board, x, y, q)

(* The 4x4 cells with top-left (x, y), as 4 rows of 4 cells. *)
RegionOf(board, x, y) ==
  <<SubSeq(board[y + 1], x + 1, x + 4), SubSeq(board[y + 2], x + 1, x + 4),
    SubSeq(board[y + 3], x + 1, x + 4), SubSeq(board[y + 4], x + 1, x + 4)>>

(* The SquareEffect pushed for top-left (x, y).  offs is not a field of the
   source: it counts the effect's transitions into flash-off. *)
NewSquareEffect(board, x, y) ==
  [x |-> x, y |-> y,
   is_gold |-> all_same(board, x, y),
   timer |-> BLINK_PERIOD,
   flash_on |-> TRUE,
   blinks_remaining |-> BLINK_COUNT,
   offs |-> 0,
   original |-> RegionOf(board, x, y)]

(* The top-lefts of a list of effects, in the order of the list. *)
RECURSIVE TopLefts(_)
TopLefts(effs) ==
  IF effs = <<>> THEN <<>>
  ELSE <<<<Head(effs).x, Head(effs).y>>>> \o TopLefts(Tail(effs))

(* check_for_4x4_squares: whether the scan pushes an effect for (x, y). *)
Qualifies(s, x, y) ==
  /\ all_filled(s.board, x, y)
  /\ candidate_valid(s.board, x, y)
  /\ ~\E i \in 1..Len(s.active_squares) :
        s.active_squares[i].x = x /\ s.active_squares[i].y = y

(* The top-lefts in the order of the scan: y ascending, then x ascending. *)
ScanFrom(i) ==
  [j \in 1..((GRID_HEIGHT - 3) * (GRID_WIDTH - 3) - i) |->
     <<(i + j - 1) % (GRID_WIDTH - 3), (i + j - 1) \div (GRID_WIDTH - 3)>>]

ScanOrder == ScanFrom(0)

(* check_for_4x4_squares: the effects pushed for the top-lefts `hits`. *)
RECURSIVE EffectsFor(_, _)
EffectsFor(board, hits) ==
  IF hits = <<>> THEN <<>>
  ELSE <<NewSquareEffect(board, Head(hits)[1], Head(hits)[2])>>
       \o EffectsFor(board, Tail(hits))

push_squares(s, hits) ==
  [s EXCEPT !.active_squares = @ \o EffectsFor(s.board, hits),
            !.ev.scans = @ + 1,
            !.ev.created =
               IF hits = <<>> THEN @
               ELSE Append(@, [at |-> hits, board |-> s.board,
                               before |-> TopLefts(s.active_squares)])]

(* GameState::check_for_4x4_squares *)
check_for_4x4_squares(s) ==
  push_squares(s, SelectSeq(ScanOrder, LAMBDA c : Qualifies(s, c[1], c[2])))

(* A faulty lock, against which C15 is tested: the spawn is not followed by
   the scan. *)
lock_rows_unscanned(s, full_rows, id, t_type) ==
  IF full_rows # <<>>
  THEN [s EXCEPT !.clearing_lines = full_rows,
                 !.line_clear_timer = LINE_CLEAR_DELAY,
                 !.ev.locks = Append(@, [id |-> id, rows |-> full_rows])]
  ELSE spawn_new_tetromino(
         [s EXCEPT !.ev.locks = Append(@, [id |-> id, rows |-> full_rows])],
         t_type)

(* lock_tetromino after the piece is written: ClearPending when a row is
   full, otherwise the spawn and the scan. *)
lock_rows(s, full_rows, id, t_type) ==
  IF full_rows # <<>>
  THEN [s EXCEPT !.clearing_lines = full_rows,
                 !.line_clear_timer = LINE_CLEAR_DELAY,
                 !.ev.locks = Append(@, [id |-> id, rows |-> full_rows])]
  ELSE check_for_4x4_squares(
         spawn_new_tetromino(
           [s EXCEPT !.ev.locks = Append(@, [id |-> id, rows |-> full_rows])],
           t_type))

(* lock_tetromino, the write of the piece into the board. *)
lock_board(s) ==
  IF IsSome(s.tetromino)
  THEN WritePiece(s.board, s.tetromino, s.next_piece_id)
  ELSE s.board

(* A faulty write, against which C19 is tested: the id counter stays. *)
lock_write_reusing(s, board, t_type) ==
  lock_rows([s EXCEPT !.board = board],
            FullRows(board), s.next_piece_id, t_type)

lock_write(s, board, t_type) ==
  lock_rows([s EXCEPT !.board = board,
                      !.next_piece_id = IF IsSome(s.tetromino) THEN @ + 1 ELSE @],
            FullRows(board), s.next_piece_id, t_type)

(* GameState::lock_tetromino *)
lock_tetromino(s, t_type) == lock_write(s, lock_board(s), t_type)

(* clear_lines_delayed: the rows that survive, top to bottom, with empty rows
   inserted above them. *)
KeptRows(s) ==
  SelectSeq(AllRows, LAMBDA y : y \notin SeqToSet(s.clearing_lines))

RECURSIVE RowsOf(_, _)
RowsOf(board, ys) ==
  IF ys = <<>> THEN <<>> ELSE <<board[Head(ys) + 1]>> \o RowsOf(board, Tail(ys))

(* A faulty fill, against which C20 is tested: the empty rows are added
   below the surviving rows. *)
PadRowsBelow(rows) == rows \o Repeat(GRID_HEIGHT - Len(rows), EmptyRow)

PadRows(rows) == Repeat(GRID_HEIGHT - Len(rows), EmptyRow) \o rows

(* A faulty removal, against which C3 is tested: the pending rows are emptied
   where they are and nothing moves down. *)
RECURSIVE BlankRows(_, _)
BlankRows(board, ys) ==
  IF ys = <<>> THEN board
  ELSE BlankRows([board EXCEPT ![Head(ys) + 1] = EmptyRow], Tail(ys))

RemoveRowsInPlace(s) == BlankRows(s.board, s.clearing_lines)

RemoveRows(s) == PadRows(RowsOf(s.board, KeptRows(s)))

(* clear_lines_delayed after the rows are removed. *)
after_clear(s, t_type) ==
  IF IsSome(s.next_tetromino)
     /\ check_collision(s.board, s.next_tetromino.shape, s.next_tetromino.pos)
  THEN note_try(s, [s EXCEPT !.game_over = TRUE, !.started = FALSE])
  ELSE check_for_4x4_squares(spawn_new_tetromino(s, t_type))

(* A faulty removal, against which C30 is tested: the rows are removed and
   stay queued. *)
clear_lines_delayed_queued(s, t_type) ==
  after_clear([s EXCEPT !.board = RemoveRows(s),
                        !.lines_cleared = @ + Len(s.clearing_lines),
                        !.ev.cleared = s.clearing_lines],
              t_type)

(* GameState::clear_lines_delayed *)
clear_lines_delayed(s, t_type) ==
  after_clear([s EXCEPT !.board = RemoveRows(s),
                        !.lines_cleared = @ + Len(s.clearing_lines),
                        !.clearing_lines = <<>>,
                        !.ev.cleared = s.clearing_lines],
              t_type)

(* update_square_effects: the closure's first half, the timer of one effect. *)
expired(eff, dt) == eff.timer - dt <= 0

(* A faulty timer step, against which C6 is tested: the counter goes down on
   every toggle. *)
blink_every_toggle(eff, dt) ==
  IF expired(eff, dt)
  THEN [eff EXCEPT !.timer = BLINK_PERIOD,
                   !.flash_on = ~@,
                   !.blinks_remaining = IF @ > 0 THEN @ - 1 ELSE @,
                   !.offs = IF eff.flash_on THEN @ + 1 ELSE @]
  ELSE [eff EXCEPT !.timer = @ - dt]

blink(eff, dt) ==
  IF expired(eff, dt)
  THEN [eff EXCEPT !.timer = BLINK_PERIOD,
                   !.flash_on = ~@,
                   !.blinks_remaining = IF eff.flash_on /\ @ > 0 THEN @ - 1 ELSE @,
                   !.offs = IF eff.flash_on THEN @ + 1 ELSE @]
  ELSE [eff EXCEPT !.timer = @ - dt]

BonusType(is_gold) == IF is_gold THEN "BonusGold" ELSE "BonusSilver"

BonusPoints(is_gold) == IF is_gold THEN GOLD_POINTS ELSE SILVER_POINTS

(* update_square_effects: the 16 cells of a finished effect overwritten. *)
ConvertRow(row, eff) ==
  SubSeq(row, 1, eff.x)
  \o Repeat(4, [t |-> BonusType(eff.is_gold), id |-> 0])
  \o SubSeq(row, eff.x + 5, GRID_WIDTH)

ConvertRegion(board, eff) ==
  [board EXCEPT ![eff.y + 1] = ConvertRow(@, eff),
                ![eff.y + 2] = ConvertRow(@, eff),
                ![eff.y + 3] = ConvertRow(@, eff),
                ![eff.y + 4] = ConvertRow(@, eff)]

(* A faulty finalization, against which C28 is tested: every effect scores
   as gold. *)
finish_effect_as_gold(s, i, eff, board) ==
  [s EXCEPT !.board = board,
            !.score = @ + GOLD_POINTS,
            !.active_squares = SubSeq(@, 1, i - 1) \o SubSeq(@, i + 1, Len(@)),
            !.ev.finalized =
               Append(@, [x |-> eff.x, y |-> eff.y, is_gold |-> eff.is_gold,
                          offs |-> eff.offs,
                          cells |-> RegionOf(board, eff.x, eff.y),
                          gain |-> BonusPoints(eff.is_gold)])]

(* update_square_effects: the closure's second half for the i-th effect, eff
   being that effect after its timer step: finalized and dropped from the list
   (the next effect is then the i-th), or kept. *)
finish_effect(s, i, eff, board) ==
  [s EXCEPT !.board = board,
            !.score = @ + BonusPoints(eff.is_gold),
            !.active_squares = SubSeq(@, 1, i - 1) \o SubSeq(@, i + 1, Len(@)),
            !.ev.finalized =
               Append(@, [x |-> eff.x, y |-> eff.y, is_gold |-> eff.is_gold,
                          offs |-> eff.offs,
                          cells |-> RegionOf(board, eff.x, eff.y),
                          gain |-> BonusPoints(eff.is_gold)])]

note_toggle(s, old, eff) ==
  IF eff.flash_on # old.flash_on
  THEN [s EXCEPT !.ev.toggles = Append(@, <<eff.x, eff.y>>)]
  ELSE s

RECURSIVE retain_from(_, _, _)
retain_step(s, i, eff, dt) ==
  IF eff.blinks_remaining = 0
  THEN retain_from(finish_effect(s, i, eff, ConvertRegion(s.board, eff)), i, dt)
  ELSE retain_from([s EXCEPT !.active_squares[i] = eff], i + 1, dt)

retain_from(s, i, dt) ==
  IF i > Len(s.active_squares) THEN s
  ELSE retain_step(note_toggle(s, s.active_squares[i], blink(s.active_squares[i], dt)),
                   i, blink(s.active_squares[i], dt), dt)

(* GameState::update_square_effects *)
update_square_effects(s, dt) == retain_from(s, 1, dt)

(* GameState::move_tetromino *)
move_tetromino(s, dx, dy) ==
  IF IsSome(s.tetromino)
  THEN [s EXCEPT !.tetromino.pos = <<@[1] + dx, @[2] + dy>>]
  ELSE s

(* GameState::set_tetromino_shape *)
set_tetromino_shape(s, shape) ==
  IF IsSome(s.tetromino) THEN [s EXCEPT !.tetromino.shape = shape] ELSE s

(* The keys of one frame.  left and right are "pressed" (is_key_pressed: the
   key went down this frame), "held" (is_key_down only) or "none"; down is
   is_key_down(Down); the others are is_key_pressed. *)
NoKeys ==
  [up |-> FALSE, left |-> "none", right |-> "none", z |-> FALSE, x |-> FALSE,
   down |-> FALSE, c |-> FALSE, enter |-> FALSE]

(* process_input, the hard drop: the end of the loop that moves the piece down
   while the cell below is free. *)
RECURSIVE drop_pos(_, _, _)
drop_pos(board, shape, pos) ==
  IF ~check_collision(board, shape, <<pos[1], pos[2] + 1>>)
  THEN drop_pos(board, shape, <<pos[1], pos[2] + 1>>)
  ELSE pos

drop_to(s, pos) ==
  [s EXCEPT !.tetromino.pos = pos,
            !.ev.drop = <<[from |-> s.tetromino.pos, to |-> pos]>>]

hard_drop(s, t_type) ==
  lock_tetromino(IF IsSome(s.tetromino)
                 THEN drop_to(s, drop_pos(s.board, s.tetromino.shape, s.tetromino.pos))
                 ELSE s,
                 t_type)

(* process_input, one direction of the horizontal movement (dx = -1 with
   left_timer, dx = 1 with right_timer); curr is the copy of the piece taken
   when process_input began, free the result of its collision test. *)
move_left(s, key, delta, free) ==
  IF key = "pressed"
  THEN IF free
       THEN [move_tetromino(s, -1, 0) EXCEPT !.left_timer = INITIAL_HORIZONTAL_DELAY]
       ELSE s
  ELSE IF key = "held"
  THEN IF s.left_timer - delta <= 0 /\ free
       THEN [move_tetromino(s, -1, 0) EXCEPT !.left_timer = HORIZONTAL_REPEAT_DELAY]
       ELSE [s EXCEPT !.left_timer = @ - delta]
  ELSE [s EXCEPT !.left_timer = 0]

move_right(s, key, delta, free) ==
  IF key = "pressed"
  THEN IF free
       THEN [move_tetromino(s, 1, 0) EXCEPT !.right_timer = INITIAL_HORIZONTAL_DELAY]
       ELSE s
  ELSE IF key = "held"
  THEN IF s.right_timer - delta <= 0 /\ free
       THEN [move_tetromino(s, 1, 0) EXCEPT !.right_timer = HORIZONTAL_REPEAT_DELAY]
       ELSE [s EXCEPT !.right_timer = @ - delta]
  ELSE [s EXCEPT !.right_timer = 0]

(* The collision test of the copy curr moved by (dx, dy). *)
Free(s, curr, dx, dy) ==
  ~check_collision(s.board, curr.shape, <<curr.pos[1] + dx, curr.pos[2] + dy>>)

(* process_input, one rotation key. *)
turn(s, new_shape, pos) ==
  IF ~check_collision(s.board, new_shape, pos)
  THEN set_tetromino_shape(s, new_shape)
  ELSE s

(* The record of a rotation key: the active piece before and after it. *)
note_turn(pre, post, clockwise) ==
  IF post.trace
  THEN [post EXCEPT !.ev.turns = Append(@, [pre |-> pre.tetromino,
                                            post |-> post.tetromino,
                                            clockwise |-> clockwise])]
  ELSE post

rotate(s, curr, pressed, clockwise) ==
  IF pressed
  THEN note_turn(s, turn(s, rotate_shape(curr.shape, curr.t_type, clockwise), curr.pos),
                 clockwise)
  ELSE s

(* process_input, the soft drop. *)
soft_drop(s, curr, down) ==
  IF down
  THEN IF Free(s, curr, 0, 1)
       THEN move_tetromino([s EXCEPT !.fall_timer = 0], 0, 1)
       ELSE [s EXCEPT !.fall_timer = 0]
  ELSE s

(* process_input from the unwrap to the soft drop. *)
steer(s, curr, k, delta) ==
  soft_drop(
    rotate(
      rotate(
        move_right(move_left(s, k.left, delta, Free(s, curr, -1, 0)),
                   k.right, delta, Free(s, curr, 1, 0)),
        curr, k.z, FALSE),
      curr, k.x, TRUE),
    curr, k.down)

(* process_input, the hold block (key C, hold_used false): hold_piece is the
   piece taken out of the hold slot, at the spawn position in its unrotated
   shape; current_piece the copy curr in its unrotated shape. *)
Unrotated(piece) == [piece EXCEPT !.shape = TETROMINO_SHAPES[piece.t_type]]

(* A faulty swap, against which C9 is tested: without the collision test of
   the held piece. *)
swap_hold_unchecked(s, current_piece, hold_piece) ==
  [s EXCEPT !.hold_used = TRUE, !.hold_tetromino = current_piece,
            !.tetromino = hold_piece]

swap_hold(s, current_piece, hold_piece) ==
  IF check_collision(s.board, hold_piece.shape, hold_piece.pos)
  THEN [s EXCEPT !.hold_used = TRUE, !.hold_tetromino = hold_piece]
  ELSE [s EXCEPT !.hold_used = TRUE, !.hold_tetromino = current_piece,
                 !.tetromino = hold_piece]

(* Faulty hold blocks, against which C7 and C8 are tested: one ignores
   hold_used, one leaves the held piece in the shape it was turned to. *)
hold_unlatched(s, curr, t_type) ==
  IF IsSome(s.hold_tetromino)
  THEN swap_hold(s, Unrotated(curr),
                 [Unrotated(s.hold_tetromino) EXCEPT !.pos = SpawnPos])
  ELSE spawn_new_tetromino(
         [s EXCEPT !.hold_used = TRUE, !.hold_tetromino = Unrotated(curr),
                   !.tetromino = NoPiece],
         t_type)

hold_as_turned(s, curr, t_type) ==
  IF s.hold_used THEN s
  ELSE IF IsSome(s.hold_tetromino)
  THEN swap_hold(s, curr, [Unrotated(s.hold_tetromino) EXCEPT !.pos = SpawnPos])
  ELSE spawn_new_tetromino(
         [s EXCEPT !.hold_used = TRUE, !.hold_tetromino = curr,
                   !.tetromino = NoPiece],
         t_type)

(* A faulty hold, against which C26 is tested: the hold into the empty slot
   is not followed by the spawn. *)
hold_unspawned(s, curr, t_type) ==
  IF s.hold_used THEN s
  ELSE IF IsSome(s.hold_tetromino)
  THEN swap_hold(s, Unrotated(curr),
                 [Unrotated(s.hold_tetromino) EXCEPT !.pos = SpawnPos])
  ELSE [s EXCEPT !.hold_used = TRUE, !.hold_tetromino = Unrotated(curr),
                 !.tetromino = NoPiece]

hold(s, curr, t_type) ==
  IF s.hold_used THEN s
  ELSE IF IsSome(s.hold_tetromino)
  THEN swap_hold(s, Unrotated(curr),
                 [Unrotated(s.hold_tetromino) EXCEPT !.pos = SpawnPos])
  ELSE spawn_new_tetromino(
         [s EXCEPT !.hold_used = TRUE, !.hold_tetromino = Unrotated(curr),
                   !.tetromino = NoPiece],
         t_type)

(* The fields the hold block can read or write, recorded before and after it. *)
Slots(s) ==
  [tetromino |-> s.tetromino, hold_tetromino |-> s.hold_tetromino,
   next_tetromino |-> s.next_tetromino, hold_used |-> s.hold_used,
   board |-> s.board, fall_timer |-> s.fall_timer,
   piece_statistics |-> s.piece_statistics, game_over |-> s.game_over,
   spawns |-> s.ev.spawns, swaps |-> s.swaps]

(* The record of a hold intent: pre and post are the states around the hold
   block.  swaps counts the intents that changed the active or the held slot
   since the last successful spawn; a spawn made by the hold block itself
   ends that count. *)
note_hold(pre, post) ==
  [post EXCEPT !.swaps = IF post.ev.spawns > pre.ev.spawns THEN @
                         ELSE IF post.tetromino # pre.tetromino
                                 \/ post.hold_tetromino # pre.hold_tetromino
                         THEN @ + 1
                         ELSE @,
               !.ev.hold = <<[pre |-> Slots(pre), post |-> Slots(post)]>>]

hold_key(s, curr, c, t_type) ==
  IF c THEN note_hold(s, hold(s, curr, t_type)) ELSE s

(* GameState::process_input *)
process_input(s, k, delta, t_type) ==
  IF k.up THEN hard_drop(s, t_type)
  ELSE IF ~IsSome(s.tetromino) THEN [s EXCEPT !.panicked = TRUE]
  ELSE hold_key(steer(s, s.tetromino, k, delta), s.tetromino, k.c, t_type)

(* update: the fall interval, 1 / speed. *)
FallInterval(d) ==
  CASE d = "Easy" -> 150
    [] d = "Normal" -> 100
    [] d = "Hard" -> 75

(* The record of the gravity block: the accumulator, the frame time, the
   interval, the active piece and the board it found. *)
note_fall(s, interval, dt, down) ==
  IF s.trace
  THEN [s EXCEPT !.ev.fell = Append(@, [before |-> s.fall_timer, dt |-> dt,
                                        interval |-> interval,
                                        piece |-> s.tetromino,
                                        board |-> s.board]),
                 !.ev.down = down]
  ELSE s

(* A faulty gravity step, against which C13 is tested: the piece is moved
   down without the collision test. *)
fall_through(s, interval, dt, t_type) ==
  IF s.fall_timer + dt >= interval
  THEN move_tetromino([s EXCEPT !.fall_timer = @ + dt - interval,
                                !.ev.gravity = "moved"],
                      0, 1)
  ELSE [s EXCEPT !.fall_timer = @ + dt]

(* update: the fall accumulator and the move down or the lock it triggers;
   interval is the fall interval of this frame. *)
fall_step(s, interval, dt, t_type) ==
  IF s.fall_timer + dt >= interval
  THEN IF ~Free(s, s.tetromino, 0, 1)
       THEN lock_tetromino([s EXCEPT !.fall_timer = @ + dt - interval,
                                     !.ev.gravity = "locked"],
                           t_type)
       ELSE move_tetromino([s EXCEPT !.fall_timer = @ + dt - interval,
                                     !.ev.gravity = "moved"],
                           0, 1)
  ELSE [s EXCEPT !.fall_timer = @ + dt]

(* update: the gravity block, entered when there is an active piece; down
   is is_key_down(Down). *)
fall(s, interval, dt, down, t_type) ==
  IF ~IsSome(s.tetromino) THEN s
  ELSE fall_step(note_fall(s, interval, dt, down), interval, dt, t_type)

(* update after process_input. *)
after_input(s, k, dt, t_type) ==
  IF s.panicked THEN s
  ELSE update_square_effects(
         fall(s, IF k.down THEN SOFT_DROP_INTERVAL ELSE FallInterval(s.difficulty),
              dt, k.down, t_type),
         dt)

(* A faulty pending frame, against which C14 is tested: the fall accumulator
   advances with the line-clear timer. *)
pending_falling(s, dt, t_type) ==
  IF s.line_clear_timer - dt <= 0
  THEN clear_lines_delayed([s EXCEPT !.line_clear_timer = @ - dt], t_type)
  ELSE [s EXCEPT !.line_clear_timer = @ - dt, !.fall_timer = @ + dt]

(* update while line_clear_timer > 0. *)
pending(s, dt, t_type) ==
  IF s.line_clear_timer - dt <= 0
  THEN clear_lines_delayed([s EXCEPT !.line_clear_timer = @ - dt], t_type)
  ELSE [s EXCEPT !.line_clear_timer = @ - dt]

(* A faulty frame, against which C16 is tested: the pause flag does not
   stop it. *)
running_unpaused(s, k, dt, t1, t2) ==
  IF ~s.started \/ s.game_over THEN s
  ELSE IF s.line_clear_timer > 0 THEN pending(s, dt, t1)
  ELSE after_input(process_input(s, k, dt, t1), k, dt, t2)

(* update after the pause key. *)
running(s, k, dt, t1, t2) ==
  IF s.paused \/ ~s.started \/ s.game_over THEN s
  ELSE IF s.line_clear_timer > 0 THEN pending(s, dt, t1)
  ELSE after_input(process_input(s, k, dt, t1), k, dt, t2)

(* A faulty update, against which C17 is tested: the pause key is read in a
   game that is over. *)
update_pausing_over(s, k, dt, t1, t2) ==
  running([s EXCEPT !.ev = NoEvents,
                    !.paused = IF k.enter THEN ~@ ELSE @],
          k, dt, t1, t2)

(* GameState::update for one frame: k the keys, dt the frame time, t1 and t2
   the draws of the random generator (one per spawn; at most two pieces can
   spawn in one frame). *)
update(s, k, dt, t1, t2) ==
  running([s EXCEPT !.ev = NoEvents,
                    !.paused = IF ~s.game_over /\ k.enter THEN ~@ ELSE @],
          k, dt, t1, t2)

(***************************************************************************)
(* The program: main's locals and its loop.                                *)
(***************************************************************************)
VARIABLES game_state, in_menu, placed

vars == <<game_state, in_menu, placed>>

(* main before the first frame: in the menu, a GameState just built.  placed
   counts the calls of lock_tetromino since then; it bounds the runs. *)
Init ==
  /\ game_state = NewGameState
  /\ in_menu = TRUE
  /\ placed = 0

(* A faulty menu branch, against which C18 is tested: start_game is called
   on the GameState of the game before, not on a new one. *)
MenuStartKeeping(draws, difficulties) ==
  /\ in_menu
  /\ \E curr \in draws, next \in draws, d \in difficulties :
        game_state' = start_game([game_state EXCEPT !.difficulty = d], curr, next)
  /\ in_menu' = FALSE
  /\ UNCHANGED placed

(* main, the menu branch when MainMenu::update returns true: a new GameState
   with the menu's difficulty, then start_game. *)
MenuStartWith(draws, difficulties) ==
  /\ in_menu
  /\ \E curr \in draws, next \in draws, d \in difficulties :
        game_state' = start_game([NewGameState EXCEPT !.difficulty = d], curr, next)
  /\ in_menu' = FALSE
  /\ UNCHANGED placed

(* main, the game branch, for the GameState `next` that update left: main
   goes back to the menu when the game is over. *)
Commit(next) ==
  /\ game_state' = next
  /\ placed' = placed + Len(next.ev.locks)
  /\ in_menu' = next.game_over

(* main, the game branch: one frame with keys from `inputs`, a frame time
   from `frames` and random draws from `draws`.  The draws are read only by a
   spawn, so they are enumerated only for a frame that spawns.  The runs
   checked stop once lock_tetromino was called `limit` times. *)
TickWith(inputs, frames, draws, limit) ==
  /\ ~in_menu
  /\ ~game_state.panicked
  /\ placed < limit
  /\ \E k \in inputs, dt \in frames :
        IF \A t \in draws : update(game_state, k, dt, t, t).ev.spawns = 0
        THEN \E t \in draws : Commit(update(game_state, k, dt, t, t))
        ELSE \E t1 \in draws, t2 \in draws :
                Commit(update(game_state, k, dt, t1, t2))

(* One frame of a recorded run. *)
Frame(k, dt, t1) == [k |-> k, dt |-> dt, t1 |-> t1, t2 |-> t1]

(* The state after the frames of `script`, each passed through update in
   their order (the first half of the script, then the second); main calls
   update no more once the game is over. *)
RECURSIVE Replay(_, _)
Replay(s, script) ==
  IF script = <<>> \/ s.game_over THEN s
  ELSE IF Len(script) = 1
  THEN update(s, script[1].k, script[1].dt, script[1].t1, script[1].t2)
  ELSE LET first == Replay(s, SubSeq(script, 1, Len(script) \div 2))
       IN  IF first.game_over THEN first
           ELSE Replay(first, SubSeq(script, Len(script) \div 2 + 1, Len(script)))

(* n frames of the same key. *)
Times(n, f) == Repeat(n, f)

KeyLeft == [NoKeys EXCEPT !.left = "pressed"]
KeyLeftHeld == [NoKeys EXCEPT !.left = "held"]
KeyRight == [NoKeys EXCEPT !.right = "pressed"]
KeyRightHeld == [NoKeys EXCEPT !.right = "held"]
KeyZ == [NoKeys EXCEPT !.z = TRUE]
KeyX == [NoKeys EXCEPT !.x = TRUE]
KeyDown == [NoKeys EXCEPT !.down = TRUE]
KeyUp == [NoKeys EXCEPT !.up = TRUE]
KeyC == [NoKeys EXCEPT !.c = TRUE]
KeyEnter == [NoKeys EXCEPT !.enter = TRUE]
KeyLeftZ == [NoKeys EXCEPT !.left = "pressed", !.z = TRUE]
KeyLeftDown == [NoKeys EXCEPT !.left = "pressed", !.down = TRUE]

(* Frame times, in units of 1/300 s: as long as the fall interval of Normal,
   half of it, and a tenth of it. *)
LongFrame == FallInterval("Normal")
HalfFrame == LongFrame \div 2
ShortFrame == LongFrame \div 10

(***************************************************************************)
(* The program from its start, steered by the movement keys.               *)
(***************************************************************************)
MaxLocks == 1

Inputs == {NoKeys, KeyLeft, KeyZ, KeyLeftZ, KeyUp}

Frames == {HalfFrame, LongFrame}

Draws == {"I", "O"}

Difficulties == {"Normal", "Hard"}

MenuStart == MenuStartWith(Draws, Difficulties)

Tick == TickWith(Inputs, Frames, Draws, MaxLocks)

Next == MenuStart \/ Tick

Spec == Init /\ [][Next]_vars

(* The cells of a piece: position + shape offsets. *)
CellsOf(piece) ==
  {<<piece.pos[1] + piece.shape[i][1], piece.pos[2] + piece.shape[i][2]>> : i \in 1..4}

(* Every cell of the piece is inside the board and on an empty cell. *)
OnFreeCells(board, piece) ==
  \A c \in CellsOf(piece) : InBounds(c[1], c[2]) /\ At(board, c[1], c[2]).t = "None"

(* C1: while the session is running (started, not game-over) and no
   line-clear is pending, after every frame all 4 cells of the active piece
   are inside the board and on empty board cells. *)
C1_ActivePieceOnFreeCells ==
  (game_state.started /\ ~game_state.game_over /\ game_state.line_clear_timer <= 0)
  => (IsSome(game_state.tetromino)
      /\ OnFreeCells(game_state.board, game_state.tetromino))

(* The piece `piece` put at position pos. *)
PieceAt(piece, pos) == [piece EXCEPT !.pos = pos]

(* C10: a frame with a hard-drop intent moves the active piece straight down
   (column and shape unchanged) through free positions to the lowest one at
   which it does not collide, and locks it there in that frame whatever the
   fall accumulator holds; if the lock fills a row, ClearPending is entered
   with the whole delay and no row is removed in that frame. *)
C10_HardDropLocksAtLowest ==
  [][game_state'.ev.drop # <<>> =>
       /\ game_state'.ev.drop[1].from = game_state.tetromino.pos
       /\ game_state'.ev.drop[1].to[1] = game_state.tetromino.pos[1]
       /\ game_state'.ev.drop[1].to[2] >= game_state.tetromino.pos[2]
       /\ \A y \in game_state.tetromino.pos[2]..game_state'.ev.drop[1].to[2] :
             OnFreeCells(game_state.board,
                         PieceAt(game_state.tetromino,
                                 <<game_state.tetromino.pos[1], y>>))
       /\ ~OnFreeCells(game_state.board,
                       PieceAt(game_state.tetromino,
                               <<game_state'.ev.drop[1].to[1],
                                 game_state'.ev.drop[1].to[2] + 1>>))
       /\ game_state'.ev.locks # <<>>
       /\ game_state'.ev.locks[1].id = game_state.next_piece_id
       /\ \A c \in CellsOf(PieceAt(game_state.tetromino, game_state'.ev.drop[1].to)) :
             /\ InBounds(c[1], c[2])
             /\ At(game_state'.board, c[1], c[2]).t = game_state.tetromino.t_type
       /\ game_state'.ev.locks[1].rows # <<>> =>
             /\ game_state'.line_clear_timer = LINE_CLEAR_DELAY
             /\ game_state'.clearing_lines = game_state'.ev.locks[1].rows
             /\ game_state'.ev.cleared = <<>>
             /\ game_state'.lines_cleared = game_state.lines_cleared
             /\ FullRows(game_state'.board) = game_state'.ev.locks[1].rows]_vars

(* State s with the full record of ev switched on. *)
Traced(s) == [s EXCEPT !.trace = TRUE]

(* A new game of two given pieces. *)
Started(curr, next) == start_game(NewGameState, curr, next)

(* Recorded frames that place the active piece: a horizontal piece is moved
   to anchor column x and dropped; an I is turned upright into column c
   (one row of fall, one turn, then the moves) and dropped.  `t` is the draw
   of the spawn that follows the lock. *)
Shift(from, to) ==
  IF to < from THEN Times(from - to, Frame(KeyLeft, ShortFrame, "I"))
               ELSE Times(to - from, Frame(KeyRight, ShortFrame, "I"))

DropAt(x, t) == Shift(SpawnPos[1], x) \o <<Frame(KeyUp, ShortFrame, t)>>

Upright(c) ==
  <<Frame(NoKeys, LongFrame, "I"), Frame(KeyZ, ShortFrame, "I")>>
  \o Shift(SpawnPos[1] + 1, c)

DropUprightAt(c, t) == Upright(c) \o <<Frame(KeyUp, ShortFrame, t)>>

(***************************************************************************)
(* Runs that complete rows.  RowsOne: two I pieces lie in row 19 (columns  *)
(* 0-7) and the active O hangs over columns 8-9.  RowsFour: columns 0-8 of *)
(* rows 16-19 are filled and the active I stands upright over column 9.    *)
(* RowsTall: row 19 is filled but for columns 0-1, column 5 is filled up   *)
(* to row 0, the active O hangs over columns 0-1 and the next piece is a   *)
(* T, which collides at the spawn position once row 19 is removed.         *)
(***************************************************************************)
RowsOne ==
  Replay(Started("I", "I"),
         DropAt(0, "O") \o DropAt(4, "I") \o Shift(SpawnPos[1], 8))

RowsFour ==
  Replay(Started("I", "I"),
         DropAt(0, "I") \o DropAt(4, "I") \o DropUprightAt(8, "O")
         \o DropAt(2, "O") \o DropAt(0, "I") \o DropAt(6, "I")
         \o DropAt(2, "I") \o DropAt(0, "I") \o DropAt(4, "T")
         \o Upright(9))

RowsTall ==
  Replay(Started("T", "I"),
         DropAt(2, "I") \o DropAt(6, "I")
         \o DropUprightAt(5, "I") \o DropUprightAt(5, "I") \o DropUprightAt(5, "I")
         \o DropUprightAt(5, "O") \o DropUprightAt(5, "T")
         \o Shift(SpawnPos[1], 0))

MaxLocksRows == 3

InputsRows == {NoKeys, KeyUp, KeyDown}

FramesRows == {HalfFrame, LongFrame}

DrawsRows == {"I", "O"}

InitRows ==
  /\ game_state \in {RowsOne, RowsFour, RowsTall}
  /\ in_menu = FALSE
  /\ placed = 0

TickRows == TickWith(InputsRows, FramesRows, DrawsRows, MaxLocksRows)

SpecRows == InitRows /\ [][TickRows]_vars

(* The last call of lock_tetromino in the update that led to state s left a
   full row. *)
LockedWithFullRows(s) ==
  s.ev.locks # <<>> /\ s.ev.locks[Len(s.ev.locks)].rows # <<>>

(* C2: a lock after which at least one row is full enters ClearPending: the
   pending rows are exactly the full rows in ascending order, the delay timer
   is 0.27, the active piece slot is empty, the next piece and the per-type
   spawn counters are as before the frame, and the frame created no
   bonus-square effect. *)
C2_LockEntersClearPending ==
  [][LockedWithFullRows(game_state') =>
       /\ game_state'.clearing_lines = FullRows(game_state'.board)
       /\ game_state'.clearing_lines = game_state'.ev.locks[Len(game_state'.ev.locks)].rows
       /\ \A i \in 1..(Len(game_state'.clearing_lines) - 1) :
             game_state'.clearing_lines[i] < game_state'.clearing_lines[i + 1]
       /\ game_state'.line_clear_timer = LINE_CLEAR_DELAY
       /\ ~IsSome(game_state'.tetromino)
       /\ game_state'.next_tetromino = game_state.next_tetromino
       /\ game_state'.piece_statistics = game_state.piece_statistics
       /\ game_state'.ev.created = <<>>
       /\ game_state'.ev.scans = 0]_vars

(* The rows of `rows` below row y. *)
Below(rows, y) == Cardinality({i \in 1..Len(rows) : rows[i] > y})

(* board `after` is board `before` without the rows `rows`: the other rows
   moved down past the removed rows below them, in their order, under as many
   empty rows as were removed. *)
Compacted(before, after, rows) ==
  /\ \A y \in 0..(GRID_HEIGHT - 1) :
        y \notin SeqToSet(rows) => after[y + 1 + Below(rows, y)] = before[y + 1]
  /\ \A y \in 0..(Len(rows) - 1) : after[y + 1] = EmptyRow

(* C3: in the frame in which the ClearPending timer reaches <= 0 the pending
   rows are removed, lines_cleared grows by their number and the pending set
   becomes empty; then, if the next piece collides at its spawn position, the
   game is over and nothing spawns, otherwise the next piece becomes the
   active piece and the bonus-square scan runs once; the timer is no longer
   running. *)
C3_ClearAfterDelay ==
  [][(game_state.line_clear_timer > 0 /\ game_state'.line_clear_timer <= 0) =>
       /\ game_state.clearing_lines # <<>>
       /\ game_state'.ev.cleared = game_state.clearing_lines
       /\ Compacted(game_state.board, game_state'.board, game_state.clearing_lines)
       /\ game_state'.lines_cleared =
             game_state.lines_cleared + Len(game_state.clearing_lines)
       /\ game_state'.clearing_lines = <<>>
       /\ game_state'.ev.locks = <<>>
       /\ IF check_collision(game_state'.board, game_state.next_tetromino.shape,
                             game_state.next_tetromino.pos)
          THEN /\ game_state'.game_over /\ ~game_state'.started
               /\ game_state'.ev.spawns = 0
               /\ game_state'.next_tetromino = game_state.next_tetromino
               /\ game_state'.tetromino = game_state.tetromino
               /\ game_state'.ev.scans = 0
          ELSE /\ ~game_state'.game_over /\ game_state'.started
               /\ game_state'.ev.spawns = 1
               /\ game_state'.tetromino = game_state.next_tetromino
               /\ game_state'.ev.scans = 1]_vars

(* C3, the 4-row case: rows 16..19 were removed, 4 lines are counted and the
   top 4 rows are empty. *)
C3_FourRowsCleared ==
  /\ game_state.ev.cleared = <<16, 17, 18, 19>>
  /\ game_state.lines_cleared = 4
  /\ \A y \in 0..3 : game_state.board[y + 1] = EmptyRow
  /\ game_state.ev.spawns = 1

(* C3, the game-over case: the rows were removed and the next piece found
   its spawn position occupied. *)
C3_ClearedIntoGameOver ==
  game_state.ev.cleared # <<>> /\ game_state.game_over /\ game_state.ev.spawns = 0

(***************************************************************************)
(* Runs around the hold key.  HoldTower: column 5 is filled up to row 0,   *)
(* the hold slot is empty, the active piece is an O and the next piece a   *)
(* T, which collides at the spawn position.  HoldTowerHeld: the same with  *)
(* an I in the hold slot, which collides at the spawn position too.        *)
(* HoldTurned: an empty board, the active I turned upright, a T next.      *)
(***************************************************************************)
Tower ==
  DropUprightAt(5, "I") \o DropUprightAt(5, "I") \o DropUprightAt(5, "I")
  \o DropUprightAt(5, "O") \o DropUprightAt(5, "T")

HoldTower == Replay(Started("I", "I"), Tower)

HoldTowerHeld == Replay(Started("I", "I"), <<Frame(KeyC, ShortFrame, "I")>> \o Tower)

HoldTurned == Replay(Started("I", "T"), Upright(SpawnPos[1] + 1))

MaxLocksHold == 2

InputsHold == {NoKeys, KeyC, KeyUp}

FramesHold == {LongFrame}

DrawsHold == {"O", "T"}

InitHold ==
  /\ game_state \in {HoldTower, HoldTowerHeld, HoldTurned}
  /\ in_menu = FALSE
  /\ placed = 0

TickHold == TickWith(InputsHold, FramesHold, DrawsHold, MaxLocksHold)

SpecHold == InitHold /\ [][TickHold]_vars

(* The hold intent of the update that led to state s, if it had one: the
   slots before and after the hold block. *)
HoldPre(s) == s.ev.hold[1].pre

HoldPost(s) == s.ev.hold[1].post

(* C7: at most one hold intent changes the active or the held slot between
   two successful spawns; a hold intent that finds hold_used set leaves the
   active piece, the held piece, the next piece and the board as they are;
   hold_used is cleared in a frame only if a piece spawned in it, and is
   clear after every frame in which a piece spawned. *)
C7_HoldLatch ==
  [][/\ game_state'.swaps <= 1
     /\ game_state'.ev.hold # <<>> =>
          /\ HoldPost(game_state').spawns > HoldPre(game_state').spawns
                => HoldPre(game_state').swaps = 0
          /\ HoldPre(game_state').hold_used =>
                /\ HoldPost(game_state').tetromino = HoldPre(game_state').tetromino
                /\ HoldPost(game_state').hold_tetromino = HoldPre(game_state').hold_tetromino
                /\ HoldPost(game_state').next_tetromino = HoldPre(game_state').next_tetromino
                /\ HoldPost(game_state').board = HoldPre(game_state').board
                /\ HoldPost(game_state').hold_used
     /\ (game_state.hold_used /\ ~game_state'.hold_used) => game_state'.ev.spawns > 0
     /\ game_state'.ev.spawns > 0 => ~game_state'.hold_used]_vars

(* C7: a hold intent met hold_used set, after the one swap since the spawn. *)
C7_SecondHoldIgnored ==
  /\ game_state.ev.hold # <<>>
  /\ HoldPre(game_state).hold_used
  /\ HoldPre(game_state).swaps = 1
  /\ IsSome(game_state.hold_tetromino)

(* The hold intent of the update that led to s found hold_used clear and the
   hold slot empty. *)
HoldIntoEmpty(s) ==
  s.ev.hold # <<>> /\ ~HoldPre(s).hold_used /\ ~IsSome(HoldPre(s).hold_tetromino)

(* The same, with a piece in the hold slot. *)
HoldOntoHeld(s) ==
  s.ev.hold # <<>> /\ ~HoldPre(s).hold_used /\ IsSome(HoldPre(s).hold_tetromino)

(* The hold slot took the active piece in the unrotated shape of its type. *)
ActiveWentToHold(pre, post) ==
  /\ post.hold_tetromino.t_type = pre.tetromino.t_type
  /\ post.hold_tetromino.shape = TETROMINO_SHAPES[pre.tetromino.t_type]

(* spawn-next happened between pre and post: the next piece is the active
   one, a new next piece was drawn, the spawn counter of the promoted type
   grew by one and the fall accumulator is 0. *)
NextWasPromoted(pre, post) ==
  /\ post.tetromino = pre.next_tetromino
  /\ post.spawns = pre.spawns + 1
  /\ \E t \in TetrominoType : post.next_tetromino = NewTetromino(t)
  /\ post.piece_statistics =
        [pre.piece_statistics EXCEPT ![pre.next_tetromino.t_type] = @ + 1]
  /\ post.fall_timer = 0
  /\ ~post.game_over

(* C8 as stated: a hold intent with an empty hold slot and the latch clear
   moves the active piece into the hold slot in the unrotated shape of its
   type and promotes the next piece by spawn-next. *)
C8_HoldIntoEmptySpawns ==
  HoldIntoEmpty(game_state) =>
    /\ ActiveWentToHold(HoldPre(game_state), HoldPost(game_state))
    /\ NextWasPromoted(HoldPre(game_state), HoldPost(game_state))

(* C8 amended: the next piece is promoted unless it collides at its spawn
   position; then the game is over, the active slot is empty, and the next
   piece and the spawn counters are as they were. *)
C8_HoldIntoEmptySpawnsOrEnds ==
  HoldIntoEmpty(game_state) =>
    /\ ActiveWentToHold(HoldPre(game_state), HoldPost(game_state))
    /\ IF check_collision(HoldPre(game_state).board,
                          HoldPre(game_state).next_tetromino.shape,
                          HoldPre(game_state).next_tetromino.pos)
       THEN /\ HoldPost(game_state).game_over
            /\ ~IsSome(HoldPost(game_state).tetromino)
            /\ HoldPost(game_state).spawns = HoldPre(game_state).spawns
            /\ HoldPost(game_state).next_tetromino = HoldPre(game_state).next_tetromino
            /\ HoldPost(game_state).piece_statistics = HoldPre(game_state).piece_statistics
       ELSE NextWasPromoted(HoldPre(game_state), HoldPost(game_state))

(* C8: an upright I went into the empty hold slot and the next piece was
   promoted. *)
C8_TurnedPieceHeld ==
  /\ HoldIntoEmpty(game_state)
  /\ HoldPre(game_state).tetromino.shape # TETROMINO_SHAPES[HoldPre(game_state).tetromino.t_type]
  /\ NextWasPromoted(HoldPre(game_state), HoldPost(game_state))

(* The held piece of `slots` as the hold block places it: unrotated, at the
   spawn position. *)
HeldAtSpawn(slots) ==
  [shape |-> TETROMINO_SHAPES[slots.hold_tetromino.t_type], pos |-> SpawnPos,
   t_type |-> slots.hold_tetromino.t_type]

(* C9: a hold intent with a piece held and the latch clear is rejected when
   the held piece, unrotated, collides at the spawn position: the held piece
   keeps its type, the active piece its type, shape and position, the board
   is unchanged.  When it does not collide the pieces swap: the held piece
   becomes the active one, unrotated at the spawn position, and the active
   piece the held one, unrotated. *)
C9_HoldSwapOrReject ==
  HoldOntoHeld(game_state) =>
    IF ~OnFreeCells(HoldPre(game_state).board, HeldAtSpawn(HoldPre(game_state)))
    THEN /\ HoldPost(game_state).hold_tetromino.t_type =
               HoldPre(game_state).hold_tetromino.t_type
         /\ HoldPost(game_state).tetromino = HoldPre(game_state).tetromino
         /\ HoldPost(game_state).board = HoldPre(game_state).board
    ELSE /\ HoldPost(game_state).tetromino = HeldAtSpawn(HoldPre(game_state))
         /\ ActiveWentToHold(HoldPre(game_state), HoldPost(game_state))
         /\ HoldPost(game_state).board = HoldPre(game_state).board

(* C9: a swap was rejected because the held piece collides at the spawn
   position. *)
C9_SwapRejected ==
  /\ HoldOntoHeld(game_state)
  /\ ~OnFreeCells(HoldPre(game_state).board, HeldAtSpawn(HoldPre(game_state)))
  /\ HoldPost(game_state).tetromino = HoldPre(game_state).tetromino

(* C9: a swap was made. *)
C9_Swapped ==
  /\ HoldOntoHeld(game_state)
  /\ HoldPost(game_state).tetromino = HeldAtSpawn(HoldPre(game_state))

(***************************************************************************)
(* Runs that fill 4x4 regions of rows 16-19; the active piece completes    *)
(* them.  SquaresTwo: upright I pieces stand in columns 0, 1, 2 and 4 and  *)
(* the active one over column 3.  SquaresGold: two O pieces fill columns   *)
(* 0-1, three I pieces lie in columns 2-5 and the active I over them.      *)
(* SquaresSilver: two O pieces fill columns 0-3 of rows 18-19, an I lies   *)
(* on them and the active I over it.  SquaresFourO: three O pieces fill    *)
(* columns 0-3 of rows 16-19 but for the active O's place.                 *)
(***************************************************************************)
SquaresTwo ==
  Replay(Started("I", "I"),
         DropUprightAt(0, "I") \o DropUprightAt(1, "I") \o DropUprightAt(2, "I")
         \o DropUprightAt(4, "I") \o Upright(3))

SquaresGold ==
  Replay(Started("O", "O"),
         DropAt(0, "I") \o DropAt(0, "I") \o DropAt(2, "I") \o DropAt(2, "I")
         \o DropAt(2, "I") \o Shift(SpawnPos[1], 2))

SquaresSilver ==
  Replay(Started("O", "O"),
         DropAt(0, "I") \o DropAt(2, "I") \o DropAt(0, "I")
         \o Shift(SpawnPos[1], 0))

SquaresFourO ==
  Replay(Started("O", "O"),
         DropAt(0, "O") \o DropAt(2, "O") \o DropAt(0, "O")
         \o Shift(SpawnPos[1], 2))

MaxLocksSquares == 2

InputsSquares == {NoKeys, KeyUp}

FramesSquares == {HalfFrame, LongFrame}

DrawsSquares == {"I", "O"}

InitSquares ==
  /\ game_state \in {SquaresTwo, SquaresGold, SquaresSilver, SquaresFourO}
  /\ in_menu = FALSE
  /\ placed = 0

TickSquares == TickWith(InputsSquares, FramesSquares, DrawsSquares, MaxLocksSquares)

SpecSquares == InitSquares /\ [][TickSquares]_vars

(* The cells of the 4x4 region with top-left c. *)
RegionCells(c) == {<<c[1] + dx, c[2] + dy>> : dx \in 0..3, dy \in 0..3}

(* The conditions under which a scan of `board`, with effects at the
   top-lefts `before` already active, may create an effect at top-left c. *)
MayCreate(board, before, c) ==
  /\ c[1] >= 0 /\ c[1] + 4 <= GRID_WIDTH /\ c[2] >= 0 /\ c[2] + 4 <= GRID_HEIGHT
  /\ \A r \in RegionCells(c) :
        /\ At(board, r[1], r[2]).t # "None"
        /\ At(board, r[1], r[2]).t \notin BonusTypes
  /\ \A r \in RegionCells(c) :
        \A x \in 0..(GRID_WIDTH - 1), y \in 0..(GRID_HEIGHT - 1) :
           (At(board, x, y).t # "None" /\ At(board, x, y).id = At(board, r[1], r[2]).id)
           => <<x, y>> \in RegionCells(c)
  /\ c \notin SeqToSet(before)

(* No two elements of the sequence are equal. *)
Distinct(q) == \A i, j \in 1..Len(q) : i # j => q[i] # q[j]

(* C4: an effect is created for a top-left only if the region fits in the
   board, its 16 cells are occupied, none is a bonus cell, every cell of the
   board that shares an owner id with a cell of the region lies in the
   region, and no active effect has that top-left; two active effects never
   share a top-left. *)
C4_EffectCreatedOnlyIfContained ==
  /\ \A i \in 1..Len(game_state.ev.created) :
        /\ \A j \in 1..Len(game_state.ev.created[i].at) :
              MayCreate(game_state.ev.created[i].board,
                        game_state.ev.created[i].before,
                        game_state.ev.created[i].at[j])
        /\ Distinct(game_state.ev.created[i].at)
  /\ Distinct(TopLefts(game_state.active_squares))

(* C4: a scan created an effect and left out a region whose 16 cells are
   occupied, because a piece of it has a cell outside. *)
C4_FullRegionNotFlagged ==
  /\ game_state.ev.created # <<>>
  /\ \E x \in 0..(GRID_WIDTH - 4), y \in 0..(GRID_HEIGHT - 4) :
        /\ all_filled(game_state.ev.created[1].board, x, y)
        /\ <<x, y>> \notin SeqToSet(game_state.ev.created[1].at)
        /\ <<x, y>> \notin SeqToSet(game_state.ev.created[1].before)

(* C5: the regions of two active effects share no cell. *)
C5_EffectRegionsDisjoint ==
  \A i, j \in 1..Len(game_state.active_squares) :
     i # j =>
       RegionCells(<<game_state.active_squares[i].x, game_state.active_squares[i].y>>)
       \cap RegionCells(<<game_state.active_squares[j].x, game_state.active_squares[j].y>>)
       = {}

(* The sum of the gains of the finalizations `fs`. *)
RECURSIVE Gains(_)
Gains(fs) == IF fs = <<>> THEN 0 ELSE Head(fs).gain + Gains(Tail(fs))

(* The effect of state s with top-left c, if there is one. *)
EffectAt(s, c) ==
  CHOOSE e \in SeqToSet(s.active_squares) : e.x = c[1] /\ e.y = c[2]

(* C6: an effect is finalized in the frame of its 6th transition into
   flash-off and in no other: until then it has made fewer, and its counter
   is 6 less their number.  In a frame an effect toggles at most once, and
   its counter goes down by one exactly when it toggles to flash-off.  At
   the finalization the 16 cells of the region are bonus cells of the
   effect's kind with owner id 0, the score grows by 500 for gold and 200 for
   silver, and the effect is gone from the list; an effect leaves the list
   in no other way, is finalized once, and the score changes in no other
   way. *)
C6_EffectFinalizesAfterSixOffs ==
  [][/\ \A i \in 1..Len(game_state'.active_squares) :
           /\ game_state'.active_squares[i].blinks_remaining > 0
           /\ game_state'.active_squares[i].blinks_remaining
                 = BLINK_COUNT - game_state'.active_squares[i].offs
     /\ Distinct(game_state'.ev.toggles)
     /\ \A c \in SeqToSet(TopLefts(game_state.active_squares))
                 \cap SeqToSet(TopLefts(game_state'.active_squares)) :
           /\ EffectAt(game_state', c).flash_on # EffectAt(game_state, c).flash_on
                 <=> c \in SeqToSet(game_state'.ev.toggles)
           /\ EffectAt(game_state', c).blinks_remaining =
                 IF c \in SeqToSet(game_state'.ev.toggles)
                    /\ EffectAt(game_state, c).flash_on
                 THEN EffectAt(game_state, c).blinks_remaining - 1
                 ELSE EffectAt(game_state, c).blinks_remaining
     /\ \A i \in 1..Len(game_state'.ev.finalized) :
           /\ game_state'.ev.finalized[i].offs = BLINK_COUNT
           /\ <<game_state'.ev.finalized[i].x, game_state'.ev.finalized[i].y>>
                 \in SeqToSet(game_state'.ev.toggles)
           /\ \A dy \in 1..4, dx \in 1..4 :
                 game_state'.ev.finalized[i].cells[dy][dx] =
                    [t |-> IF game_state'.ev.finalized[i].is_gold
                           THEN "BonusGold" ELSE "BonusSilver",
                     id |-> 0]
           /\ game_state'.ev.finalized[i].gain =
                 IF game_state'.ev.finalized[i].is_gold THEN 500 ELSE 200
           /\ <<game_state'.ev.finalized[i].x, game_state'.ev.finalized[i].y>>
                 \notin SeqToSet(TopLefts(game_state'.active_squares))
     /\ \A c \in SeqToSet(TopLefts(game_state.active_squares))
                 \ SeqToSet(TopLefts(game_state'.active_squares)) :
           \E i \in 1..Len(game_state'.ev.finalized) :
              c = <<game_state'.ev.finalized[i].x, game_state'.ev.finalized[i].y>>
     /\ Len(game_state'.ev.finalized)
           = Cardinality({<<game_state'.ev.finalized[i].x, game_state'.ev.finalized[i].y>> :
                             i \in 1..Len(game_state'.ev.finalized)})
     /\ game_state'.score = game_state.score + Gains(game_state'.ev.finalized)]_vars

(* C6: a gold effect was finalized and its 500 points are the score. *)
C6_GoldFinalized ==
  /\ Len(game_state.ev.finalized) = 1
  /\ game_state.ev.finalized[1].is_gold
  /\ game_state.score = GOLD_POINTS
  /\ At(game_state.board, 2, 16) = [t |-> "BonusGold", id |-> 0]

(* C6: a silver effect was finalized and its 200 points are the score. *)
C6_SilverFinalized ==
  /\ Len(game_state.ev.finalized) = 1
  /\ ~game_state.ev.finalized[1].is_gold
  /\ game_state.score = SILVER_POINTS

(***************************************************************************)
(* Sessions: runs from HoldTower and RowsTall, in which the next piece     *)
(* collides at the spawn position, and from SquaresGold, with the pause    *)
(* key, the return to the menu and the start of a new game.                *)
(***************************************************************************)
MaxLocksSession == 2

InputsSession == {NoKeys, KeyUp, KeyC, KeyEnter}

FramesSession == {LongFrame}

DrawsSession == {"T"}

InitSession ==
  /\ game_state \in {Traced(HoldTower), Traced(RowsTall), Traced(SquaresGold)}
  /\ in_menu = FALSE
  /\ placed = 0

TickSession == TickWith(InputsSession, FramesSession, DrawsSession, MaxLocksSession)

MenuStartSession == MenuStartWith(DrawsSession, {"Normal"})

(* GameState::update called on a game that is over.  main makes no such
   call, it shows the menu; the action is the call that the guard at the head
   of update answers. *)
UpdateWhenOver(inputs, frames, draws) ==
  /\ in_menu
  /\ game_state.game_over
  /\ \E k \in inputs, dt \in frames, t \in draws :
        game_state' = update(game_state, k, dt, t, t)
  /\ UNCHANGED <<in_menu, placed>>

OverSession == UpdateWhenOver(InputsSession, FramesSession, DrawsSession)

NextSession == TickSession \/ OverSession \/ MenuStartSession

SpecSession == InitSession /\ [][NextSession]_vars

(* The recorded spawn e did what spawn-next does: it was made with the
   session started and a next piece present; when the next piece collides
   with the board at its position the game is over, started is false and
   nothing else differs; otherwise the next piece is the active one and the
   game goes on. *)
SpawnOrOver(e) ==
  /\ e.pre.started /\ ~e.pre.game_over /\ IsSome(e.pre.next_tetromino)
  /\ IF check_collision(e.pre.board, e.pre.next_tetromino.shape,
                        e.pre.next_tetromino.pos)
     THEN e.post = [e.pre EXCEPT !.game_over = TRUE, !.started = FALSE]
     ELSE /\ ~e.post.game_over /\ e.post.started
          /\ e.post.tetromino = e.pre.next_tetromino
          /\ e.post.board = e.pre.board

(* The recorded spawn e ended the game. *)
SpawnFailed(e) == ~e.pre.game_over /\ e.post.game_over

(* C11: game_over becomes true in a frame only by a spawn of that frame that
   found the next piece colliding at its spawn position; every spawn that
   finds this sets game_over and clears started and changes neither the
   board nor the piece slots nor the spawn counters, and the next piece and
   the counters are the same at the end of the frame; every other spawn
   promotes the next piece; game_over implies not started. *)
C11_GameOverOnlyBySpawnCollision ==
  [][/\ (game_state'.trace /\ game_state'.game_over /\ ~game_state.game_over) =>
           /\ \E i \in 1..Len(game_state'.ev.tries) :
                 SpawnFailed(game_state'.ev.tries[i])
           /\ game_state'.next_tetromino = game_state.next_tetromino
           /\ game_state'.piece_statistics = game_state.piece_statistics
     /\ \A i \in 1..Len(game_state'.ev.tries) :
           /\ SpawnOrOver(game_state'.ev.tries[i])
           /\ SpawnFailed(game_state'.ev.tries[i]) => game_state'.game_over
     /\ game_state.game_over => ~game_state.started
     /\ game_state'.game_over => ~game_state'.started]_vars

(* C11: a lock without a full row was followed by a spawn that found the
   spawn position occupied, and the game is over. *)
C11_OverAfterLock ==
  /\ game_state.game_over /\ ~game_state.started
  /\ game_state.ev.locks # <<>>
  /\ \E i \in 1..Len(game_state.ev.tries) : SpawnFailed(game_state.ev.tries[i])

(* C11: the spawn of a hold intent, and the spawn after a line clear, ended
   the game. *)
C11_OverAfterHold ==
  /\ game_state.game_over /\ game_state.ev.hold # <<>>
  /\ \E i \in 1..Len(game_state.ev.tries) : SpawnFailed(game_state.ev.tries[i])

C11_OverAfterClear ==
  /\ game_state.game_over /\ game_state.ev.cleared # <<>>
  /\ \E i \in 1..Len(game_state.ev.tries) : SpawnFailed(game_state.ev.tries[i])

(***************************************************************************)
(* Runs of one I piece on the empty board with the rotation keys, alone    *)
(* and together with the left key.                                         *)
(***************************************************************************)
MaxLocksTurn == 1

InputsTurn == {NoKeys, KeyLeft, KeyZ, KeyX, KeyLeftZ}

InitTurn ==
  /\ game_state = Traced(Started("I", "I"))
  /\ in_menu = FALSE
  /\ placed = 0

TickTurn == TickWith(InputsTurn, Frames, {"I"}, MaxLocksTurn)

SpecTurn == InitTurn /\ [][TickTurn]_vars

(* The shape the rotation key of the record e turns the piece into. *)
Turned(e) == rotate_shape(e.pre.shape, e.pre.t_type, e.clockwise)

(* The recorded rotation e on `board`: rejected, with the piece as it was,
   when the turned shape collides at the position of the piece; otherwise the
   piece has the turned shape at the same position. *)
TurnedInPlaceOrRejected(board, e) ==
  IF check_collision(board, Turned(e), e.pre.pos)
  THEN e.post = e.pre
  ELSE e.post = [e.pre EXCEPT !.shape = Turned(e)]

(* C12: a rotate intent whose rotated shape collides or leaves the board at
   the position the piece has then is rejected and leaves shape and position
   as they were; one whose rotated shape is free there replaces the shape and
   leaves the position. *)
C12_RotationInPlaceOrRejected ==
  [][\A i \in 1..Len(game_state'.ev.turns) :
        TurnedInPlaceOrRejected(game_state.board, game_state'.ev.turns[i])]_vars

(***************************************************************************)
(* Runs of O pieces falling on the empty board at each difficulty, with    *)
(* the soft-drop and the hard-drop key and frames shorter and longer than  *)
(* the fall intervals.                                                     *)
(***************************************************************************)
MaxLocksFall == 2

InputsFall == {NoKeys, KeyDown, KeyUp}

FramesFall == {ShortFrame, HalfFrame, LongFrame}

InitFall ==
  /\ game_state \in {Traced([Started("O", "O") EXCEPT !.difficulty = d]) : d \in Difficulty}
  /\ in_menu = FALSE
  /\ placed = 0

TickFall == TickWith(InputsFall, FramesFall, {"O"}, MaxLocksFall)

SpecFall == InitFall /\ [][TickFall]_vars

(* The fall interval in units of 1/300 time unit: 1/15 while the soft drop
   is held, else 1/2, 1/3, 1/4 for Easy, Normal, Hard. *)
IntervalOf(d, down) ==
  IF down THEN 300 \div 15
  ELSE CASE d = "Easy" -> 300 \div 2
         [] d = "Normal" -> 300 \div 3
         [] d = "Hard" -> 300 \div 4

(* Piece `piece` one cell further down. *)
OneDown(piece) == [piece EXCEPT !.pos = <<@[1], @[2] + 1>>]

(* The gravity block that recorded e led to state s: below the interval the
   accumulator grew by the frame time and the piece stayed; from the interval
   on the interval was taken off and the piece went one cell down to free
   cells, or, that position colliding, was locked where it was. *)
FellOrLocked(e, s) ==
  IF e.before + e.dt < e.interval
  THEN /\ s.ev.gravity = "none"
       /\ s.tetromino = e.piece
       /\ s.fall_timer = e.before + e.dt
  ELSE IF check_collision(e.board, e.piece.shape, OneDown(e.piece).pos)
  THEN /\ s.ev.gravity = "locked"
       /\ s.ev.locks # <<>>
       /\ \A c \in CellsOf(e.piece) :
             InBounds(c[1], c[2]) =>
               At(s.board, c[1], c[2]) =
                  [t |-> e.piece.t_type, id |-> s.ev.locks[Len(s.ev.locks)].id]
  ELSE /\ s.ev.gravity = "moved"
       /\ s.tetromino = OneDown(e.piece)
       /\ OnFreeCells(s.board, s.tetromino)
       /\ s.fall_timer = e.before + e.dt - e.interval

(* C13: in every frame of a running session without a pending line clear
   the gravity block runs once when there is an active piece, with the
   interval 1/2, 1/3, 1/4 for Easy, Normal, Hard and 1/15 while the soft drop
   is held; when the accumulator reaches the interval the piece goes down
   exactly one cell if that position is free and is locked where it is
   otherwise; gravity moves it at most one cell in a frame and never into a
   colliding position. *)
C13_GravityOneCellOrLock ==
  [][(game_state.trace /\ game_state.started /\ ~game_state'.paused
      /\ game_state.line_clear_timer <= 0) =>
       /\ Len(game_state'.ev.fell) <= 1
       /\ game_state'.ev.fell = <<>> => ~IsSome(game_state'.tetromino)
       /\ \A i \in 1..Len(game_state'.ev.fell) :
             /\ game_state'.ev.fell[i].interval
                   = IntervalOf(game_state.difficulty, game_state'.ev.down)
             /\ FellOrLocked(game_state'.ev.fell[i], game_state')]_vars

(* C13: with the soft drop held at Easy the accumulator reached 1/15 and the
   piece went one cell down by gravity. *)
C13_SoftDropFell ==
  /\ game_state.difficulty = "Easy"
  /\ game_state.ev.down
  /\ game_state.ev.gravity = "moved"
  /\ Len(game_state.ev.fell) = 1

(* C13: the accumulator reached the interval with the piece on the floor and
   gravity locked it. *)
C13_LockedByGravity ==
  /\ game_state.ev.gravity = "locked"
  /\ game_state.ev.drop = <<>>
  /\ game_state.ev.locks # <<>>

(***************************************************************************)
(* Runs that have just completed rows beside other content, with the line *)
(* clear pending.  RowsFlash: a 4x4 region of columns 0-3 has just been    *)
(* flagged, an I lies in columns 4-7 of row 19 and an O was dropped into   *)
(* columns 8-9.  RowsSplit: columns 0-8 of rows 17 and 19 are filled, rows *)
(* 16 and 18 have gaps, and an upright I was dropped into column 9.        *)
(***************************************************************************)
RowsFlash ==
  Replay(Started("O", "O"),
         DropAt(0, "I") \o DropAt(2, "I") \o DropAt(0, "I") \o DropAt(4, "O")
         \o DropAt(0, "I") \o DropAt(8, "O"))

RowsSplit ==
  Replay(Started("I", "I"),
         DropAt(0, "I") \o DropAt(4, "I") \o DropAt(4, "I") \o DropAt(4, "I")
         \o DropUprightAt(8, "L") \o DropUprightAt(3, "I") \o DropAt(0, "I")
         \o DropUprightAt(9, "O"))

MaxLocksClear == 1

(* The keys of a frame with the left, Z, C and Down keys all down. *)
KeyLeftZDownC ==
  [NoKeys EXCEPT !.left = "pressed", !.z = TRUE, !.c = TRUE, !.down = TRUE]

InputsClear == {NoKeys, KeyUp, KeyLeftZDownC}

InitClear ==
  /\ game_state \in {RowsFlash, RowsSplit}
  /\ in_menu = FALSE
  /\ placed = 0

TickClear == TickWith(InputsClear, {HalfFrame}, {"O"}, MaxLocksClear)

SpecClear == InitClear /\ [][TickClear]_vars

(* A frame that began with a line clear pending in a running, unpaused
   session. *)
PendingFrame ==
  /\ game_state.line_clear_timer > 0
  /\ game_state.started /\ ~game_state.game_over
  /\ ~game_state.paused /\ ~game_state'.paused

(* What no pending frame does: no intent acts, gravity and the effect timers
   do not run, and the line-clear timer goes down. *)
PendingFrameIdle ==
  /\ game_state'.line_clear_timer < game_state.line_clear_timer
  /\ game_state'.ev.drop = <<>> /\ game_state'.ev.hold = <<>>
  /\ game_state'.ev.locks = <<>> /\ game_state'.ev.gravity = "none"
  /\ game_state'.ev.toggles = <<>> /\ game_state'.ev.finalized = <<>>
  /\ game_state'.hold_tetromino = game_state.hold_tetromino
  /\ game_state'.left_timer = game_state.left_timer
  /\ game_state'.right_timer = game_state.right_timer
  /\ game_state'.score = game_state.score

(* C14 as stated: on a frame that begins with a line clear pending the
   active piece, the hold slot and latch, the fall accumulator, the
   horizontal-repeat timers and every effect are unchanged, and the board
   changes only if the timer reaches <= 0 in that frame. *)
C14_PendingFrameOnlyTimer ==
  [][PendingFrame =>
       /\ PendingFrameIdle
       /\ game_state'.tetromino = game_state.tetromino
       /\ game_state'.hold_used = game_state.hold_used
       /\ game_state'.fall_timer = game_state.fall_timer
       /\ game_state'.active_squares = game_state.active_squares
       /\ game_state'.board # game_state.board => game_state'.line_clear_timer <= 0]_vars

(* C14 amended: on such a frame no intent acts and neither gravity nor the
   effect timers run; while the timer stays above 0 nothing but the timer
   changes; in the frame in which it reaches <= 0 the rows are removed and,
   unless the game ends, the spawn replaces the active piece and clears the
   hold latch and the fall accumulator, the scan may add effects, and the
   hold slot, the horizontal-repeat timers and the effects there were are
   unchanged. *)
C14_PendingFrameOnlyTimerUntilExpiry ==
  [][PendingFrame =>
       /\ PendingFrameIdle
       /\ IF game_state'.line_clear_timer > 0
          THEN game_state' = [game_state EXCEPT
                                !.line_clear_timer = game_state'.line_clear_timer,
                                !.ev = NoEvents]
          ELSE /\ game_state'.ev.cleared = game_state.clearing_lines
               /\ SubSeq(game_state'.active_squares, 1, Len(game_state.active_squares))
                     = game_state.active_squares
               /\ \/ /\ game_state'.game_over
                     /\ game_state'.tetromino = game_state.tetromino
                     /\ game_state'.hold_used = game_state.hold_used
                     /\ game_state'.fall_timer = game_state.fall_timer
                  \/ /\ ~game_state'.game_over
                     /\ game_state'.tetromino = game_state.next_tetromino
                     /\ ~game_state'.hold_used
                     /\ game_state'.fall_timer = 0]_vars

(* C14: a pending frame has passed with an effect active, and the line clear
   is still pending. *)
C14_StillPendingWithEffect ==
  /\ game_state.line_clear_timer > 0
  /\ game_state.line_clear_timer < LINE_CLEAR_DELAY
  /\ game_state.active_squares # <<>>
  /\ game_state.started

(* The rows of `rows` above row y. *)
Above(rows, y) == Cardinality({i \in 1..Len(rows) : rows[i] < y})

(* C20: after the removal of k pending rows the board has 20 rows of 10
   cells, its top k rows are empty, and the other rows of the old board are
   below them with their contents, each as many rows further down as there
   were pending rows below it, so in the order they had. *)
C20_RemovalCompactsToBottom ==
  [][game_state'.ev.cleared # <<>> =>
       /\ game_state'.ev.cleared = game_state.clearing_lines
       /\ Len(game_state'.board) = 20
       /\ \A y \in 1..20 : Len(game_state'.board[y]) = 10
       /\ \A y \in 1..Len(game_state.clearing_lines) :
             \A x \in 1..10 : game_state'.board[y][x].t = "None"
       /\ \A y \in 0..19 :
             y \notin SeqToSet(game_state.clearing_lines) =>
               game_state'.board[y + 1 + Len(game_state.clearing_lines)
                                 - Above(game_state.clearing_lines, y)]
                  = game_state.board[y + 1]]_vars

(* C20: rows 17 and 19 were removed; the old row 18 is the bottom row and
   the old row 16 the one above it. *)
C20_SplitRowsRemoved ==
  /\ game_state.ev.cleared = <<17, 19>>
  /\ game_state.board[1] = EmptyRow /\ game_state.board[2] = EmptyRow
  /\ At(game_state.board, 0, 19).t = "L" /\ At(game_state.board, 1, 19).t = "None"
  /\ At(game_state.board, 8, 18).t = "I" /\ At(game_state.board, 0, 18).t = "None"

(* The locks of the update that led to s that left no full row. *)
LocksWithoutRows(s) == {i \in 1..Len(s.ev.locks) : s.ev.locks[i].rows = <<>>}

(* Top-left c is the top-left of a region of `board` that may be flagged. *)
MayFlag(board, c) == MayCreate(board, <<>>, c)

(* C15: in a frame whose locks leave no full row, every such lock is
   followed in that frame by one scan, the first is followed by a spawn that
   promotes the next piece or ends the game, no line clear is pending after
   the frame and the clear timer was not started; after the frame of one
   such lock every region of the board that may be flagged has an effect. *)
C15_LockWithoutRowsSpawnsAndScans ==
  [][(game_state'.ev.locks # <<>>
      /\ LocksWithoutRows(game_state') = 1..Len(game_state'.ev.locks)) =>
       /\ game_state'.ev.scans = Len(game_state'.ev.locks)
       /\ game_state'.ev.spawns + game_state'.ev.failed_spawns >= 1
       /\ game_state'.ev.failed_spawns >= 1 => game_state'.game_over
       /\ game_state'.ev.failed_spawns = 0 =>
             /\ ~game_state'.game_over
             /\ game_state'.tetromino.t_type = game_state.next_tetromino.t_type
       /\ game_state'.trace =>
             /\ game_state'.ev.tries # <<>>
             /\ game_state'.ev.tries[1].pre.next_tetromino = game_state.next_tetromino
             /\ SpawnOrOver(game_state'.ev.tries[1])
       /\ game_state'.clearing_lines = <<>>
       /\ game_state'.line_clear_timer = game_state.line_clear_timer
       /\ game_state'.line_clear_timer <= 0
       /\ game_state'.ev.cleared = <<>>
       /\ (Len(game_state'.ev.locks) = 1 /\ game_state'.ev.finalized = <<>>) =>
             \A x \in 0..(GRID_WIDTH - 4), y \in 0..(GRID_HEIGHT - 4) :
                MayFlag(game_state'.board, <<x, y>>) =>
                  <<x, y>> \in SeqToSet(TopLefts(game_state'.active_squares))]_vars

(* C15: a lock without a full row was followed by the spawn and by the scan,
   which flagged a region. *)
C15_LockedSpawnedFlagged ==
  /\ Len(game_state.ev.locks) = 1
  /\ game_state.ev.locks[1].rows = <<>>
  /\ game_state.ev.spawns = 1
  /\ game_state.ev.scans = 1
  /\ game_state.ev.created # <<>>
  /\ game_state.line_clear_timer <= 0

(* C15: a lock without a full row was followed by a spawn that ended the
   game, and by the scan. *)
C15_LockedIntoGameOver ==
  /\ game_state.ev.locks # <<>>
  /\ game_state.ev.failed_spawns = 1
  /\ game_state.ev.scans >= 1
  /\ game_state.game_over

(* t differs from s in nothing but the pause flag (and the record of the
   frame). *)
SameButPaused(s, t) ==
  [t EXCEPT !.ev = NoEvents, !.paused = s.paused] = [s EXCEPT !.ev = NoEvents]

(* C16 as stated: a frame that begins paused changes nothing but the pause
   flag. *)
C16_PausedFrameOnlyFlag ==
  [][(~in_menu /\ game_state.paused) =>
       SameButPaused(game_state, game_state')]_vars

(* C16: a frame that ends paused (the frame that pauses, and every frame
   spent paused) changes nothing but the pause flag: no key but Enter acts
   and no timer advances; the frame that unpauses is an ordinary frame, with
   its keys and its frame time, run from the state the game was paused in. *)
C16_PausedFrameOnlyFlagUntilResume ==
  [][~in_menu =>
       /\ game_state'.paused => SameButPaused(game_state, game_state')
       /\ (game_state.paused /\ ~game_state'.paused) =>
            \E k \in InputsSession, dt \in FramesSession,
               t1 \in DrawsSession, t2 \in DrawsSession :
               game_state' = update([game_state EXCEPT !.paused = FALSE],
                                    [k EXCEPT !.enter = FALSE], dt, t1, t2)]_vars

(* C16: the game is paused with a piece in play, a bonus effect running and
   the frame just run having recorded nothing. *)
C16_PausedWithEffect ==
  /\ ~in_menu
  /\ game_state.paused
  /\ IsSome(game_state.tetromino)
  /\ game_state.active_squares # <<>>
  /\ game_state.ev = NoEvents

(* t differs from s in nothing (but the record of the frame). *)
SameState(s, t) == [t EXCEPT !.ev = NoEvents] = [s EXCEPT !.ev = NoEvents]

(* C17: from a state with game_over true a step changes nothing of the
   GameState, whatever keys are pressed, Enter among them: the board, the
   score, lines_cleared, the pieces, the statistics, the effects, the timers
   and the pause flag stay; the one other step is the start of a new game
   from the menu. *)
C17_FrozenWhenOver ==
  [][game_state.game_over =>
       \/ SameState(game_state, game_state')
       \/ /\ in_menu /\ ~in_menu'
          /\ \E curr \in DrawsSession, next \in DrawsSession :
                game_state' =
                  start_game([NewGameState EXCEPT !.difficulty = "Normal"],
                             curr, next)]_vars

(* C17: update has run on a game that is over (the frame that ended the game
   recorded a failed spawn, this one recorded nothing) and the board is as
   the game left it. *)
C17_UpdatedWhenOver ==
  /\ in_menu
  /\ game_state.game_over
  /\ game_state.ev = NoEvents
  /\ game_state.board # EmptyBoard

(* The pieces counted in the statistics s, over all types. *)
RECURSIVE CountedFrom(_, _)
CountedFrom(stats, i) ==
  IF i > Len(PieceTypes) THEN 0
  ELSE stats[PieceTypes[i]] + CountedFrom(stats, i + 1)

(* s is a session just started. *)
JustStarted(s) ==
  /\ s.started /\ ~s.paused /\ ~s.game_over
  /\ s.score = 0 /\ s.lines_cleared = 0
  /\ s.board = EmptyBoard
  /\ s.hold_tetromino = NoPiece /\ ~s.hold_used
  /\ s.line_clear_timer = 0 /\ s.clearing_lines = <<>>
  /\ s.active_squares = <<>>
  /\ s.next_piece_id = 1
  /\ s.left_timer = 0 /\ s.right_timer = 0 /\ s.fall_timer = 0
  /\ \E t \in TetrominoType : s.tetromino = NewTetromino(t)
  /\ \E t \in TetrominoType : s.next_tetromino = NewTetromino(t)
  /\ CountedFrom(s.piece_statistics, 1) = 1
  /\ s.piece_statistics[s.tetromino.t_type] = 1

(* C18: the step that leaves the menu (a new GameState, then start_game)
   leaves a session just started, whatever the game before left behind:
   started, not paused, not over, score and lines 0, the board empty, no
   held piece and the latch clear, no line clear pending, no effects, the id
   counter 1, the three timers 0, the active and the next piece in their
   canonical shape at the spawn position, one piece counted. *)
C18_StartGameResetsAll ==
  [][(in_menu /\ ~in_menu') => JustStarted(game_state')]_vars

(* C18: a game was played to its end (pieces were locked) and a new one was
   just started. *)
C18_StartedAgain ==
  /\ ~in_menu
  /\ placed > 0
  /\ JustStarted(game_state)

(* C18: a game is over with the fall accumulator not 0, ids given and cells
   on the board: a state the menu starts the next game after. *)
C18_OverWithFallTimer ==
  /\ in_menu
  /\ game_state.game_over
  /\ game_state.fall_timer # 0
  /\ game_state.next_piece_id > 1
  /\ game_state.board # EmptyBoard

(* The cells of the board that are not empty. *)
Filled(board) ==
  {c \in (0..(GRID_WIDTH - 1)) \X (0..(GRID_HEIGHT - 1)) :
     At(board, c[1], c[2]).t # "None"}

(* The owner ids on the board. *)
OwnerIds(board) == {At(board, c[1], c[2]).id : c \in Filled(board)}

(* On the board of s the cells of pieces carry ids from 1 to below the
   counter and the bonus cells carry id 0. *)
OwnersInRange(s) ==
  \A c \in Filled(s.board) :
     IF At(s.board, c[1], c[2]).t \in BonusTypes
     THEN At(s.board, c[1], c[2]).id = 0
     ELSE /\ At(s.board, c[1], c[2]).id >= 1
          /\ At(s.board, c[1], c[2]).id < s.next_piece_id

(* C19: the locks of a frame take the ids counter, counter + 1, ... in their
   order, none of them 0, each above every id on the board before the frame,
   and the counter ends above them all; on the board the cells of pieces
   carry ids from 1 to below the counter and only bonus cells carry id 0. *)
C19_OwnerIdsIncrease ==
  [][/\ \A i \in 1..Len(game_state'.ev.locks) :
           /\ game_state'.ev.locks[i].id = game_state.next_piece_id + i - 1
           /\ game_state'.ev.locks[i].id >= 1
           /\ \A j \in OwnerIds(game_state.board) : j < game_state'.ev.locks[i].id
     /\ game_state'.ev.locks # <<>> =>
           game_state'.next_piece_id =
             game_state.next_piece_id + Len(game_state'.ev.locks)
     /\ OwnersInRange(game_state)
     /\ OwnersInRange(game_state')]_vars

(* C19: two locks in one frame took two ids, the second above the first. *)
C19_TwoLocksTwoIds ==
  /\ Len(game_state.ev.locks) = 2
  /\ game_state.ev.locks[2].id > game_state.ev.locks[1].id
  /\ game_state.ev.locks[1].id \in OwnerIds(game_state.board)
     \/ game_state.ev.locks[2].id \in OwnerIds(game_state.board)

(* C19: a piece was locked on a board that holds bonus cells, which carry
   id 0. *)
C19_LockedBesideBonus ==
  /\ game_state.ev.locks # <<>>
  /\ 0 \in OwnerIds(game_state.board)
  /\ game_state.ev.locks[1].id \in OwnerIds(game_state.board)

(* The types of the cells of the region with top-left c. *)
RegionTypes(board, c) == {At(board, r[1], r[2]).t : r \in RegionCells(c)}

(* C21: every effect a scan created is active after the frame; in the
   board the scan read, the cells of its region that share an owner id share
   a type (each piece has one type), and the effect is gold exactly when all
   the pieces of the region have the same type, silver otherwise; so a
   region of four O pieces is gold. *)
C21_GoldIffOneType ==
  \A i \in 1..Len(game_state.ev.created) :
     \A c \in SeqToSet(game_state.ev.created[i].at) :
        /\ c \in SeqToSet(TopLefts(game_state.active_squares))
        /\ \A r, q \in RegionCells(c) :
              At(game_state.ev.created[i].board, r[1], r[2]).id
                 = At(game_state.ev.created[i].board, q[1], q[2]).id
              => At(game_state.ev.created[i].board, r[1], r[2]).t
                    = At(game_state.ev.created[i].board, q[1], q[2]).t
        /\ EffectAt(game_state, c).is_gold
              <=> Cardinality(RegionTypes(game_state.ev.created[i].board, c)) = 1
        /\ (/\ RegionTypes(game_state.ev.created[i].board, c) = {"O"}
            /\ Cardinality(pieces_in_region(game_state.ev.created[i].board,
                                            c[1], c[2])) = 4)
           => EffectAt(game_state, c).is_gold

(* C21: a scan flagged a region of four O pieces, gold. *)
C21_FourOGold ==
  /\ game_state.ev.created # <<>>
  /\ \E c \in SeqToSet(game_state.ev.created[1].at) :
        /\ RegionTypes(game_state.ev.created[1].board, c) = {"O"}
        /\ Cardinality(pieces_in_region(game_state.ev.created[1].board,
                                        c[1], c[2])) = 4
        /\ EffectAt(game_state, c).is_gold

(* C21: a scan flagged a region of pieces of two types, silver. *)
C21_TwoTypesSilver ==
  /\ game_state.ev.created # <<>>
  /\ \E c \in SeqToSet(game_state.ev.created[1].at) :
        /\ Cardinality(RegionTypes(game_state.ev.created[1].board, c)) = 2
        /\ ~EffectAt(game_state, c).is_gold

(***************************************************************************)
(* check_collision on its own: a piece of any of three types, turned or     *)
(* not, at any position from Margin cells outside the board on, over the   *)
(* empty board and over the boards of RowsTall and SquaresGold; the piece  *)
(* is moved by one cell where check_collision allows it, as the left,      *)
(* right and gravity blocks do.                                            *)
(***************************************************************************)
Margin == 2

PiecesProbed ==
  {NewTetromino(t) : t \in {"I", "T", "O"}}
  \cup {[NewTetromino(t) EXCEPT !.shape = rotate_shape(@, t, TRUE)] :
          t \in {"I", "T"}}

InitProbe ==
  /\ \E s \in {Started("T", "T"), RowsTall, SquaresGold},
        piece \in PiecesProbed,
        x \in (0 - Margin)..(GRID_WIDTH - 1 + Margin),
        y \in (0 - Margin)..(GRID_HEIGHT - 1 + Margin) :
        game_state = [s EXCEPT !.tetromino = [piece EXCEPT !.pos = <<x, y>>],
                               !.ev = NoEvents]
  /\ in_menu = FALSE
  /\ placed = 0

(* The move by (dx, dy) that process_input and update make when
   check_collision returns false for the target. *)
MoveIfFree(dx, dy) ==
  /\ ~check_collision(game_state.board, game_state.tetromino.shape,
                      <<game_state.tetromino.pos[1] + dx,
                        game_state.tetromino.pos[2] + dy>>)
  /\ game_state' = move_tetromino(game_state, dx, dy)
  /\ UNCHANGED <<in_menu, placed>>

StepsProbe == {<<0 - 1, 0>>, <<1, 0>>, <<0, 1>>}

NextProbe == \E d \in StepsProbe : MoveIfFree(d[1], d[2])

SpecProbe == InitProbe /\ [][NextProbe]_vars

(* The loop of check_collision for the active piece of s. *)
Probed(s) == collision_loop(s.board, s.tetromino.shape, s.tetromino.pos, 1, <<>>)

(* C22: for the board and the piece of the state, check_collision returns
   true exactly when one of the 4 cells is outside the board or on an
   occupied cell, so it returns true whenever a cell is outside; every index
   at which it reads the board is inside the board. *)
C22_CollisionExactAndInBounds ==
  /\ Probed(game_state).hit
        <=> \E c \in CellsOf(game_state.tetromino) :
               \/ c[1] < 0 \/ c[1] >= 10 \/ c[2] < 0 \/ c[2] >= 20
               \/ At(game_state.board, c[1], c[2]).t # "None"
  /\ (\E c \in CellsOf(game_state.tetromino) :
         c[1] < 0 \/ c[1] >= 10 \/ c[2] < 0 \/ c[2] >= 20)
        => Probed(game_state).hit
  /\ \A i \in 1..Len(Probed(game_state).reads) :
        /\ Probed(game_state).reads[i][1] \in 0..9
        /\ Probed(game_state).reads[i][2] \in 0..19
  /\ Probed(game_state).hit
        = check_collision(game_state.board, game_state.tetromino.shape,
                          game_state.tetromino.pos)

(* C22: the first cells of the piece are on free cells of the board, which
   were read, and a later cell is outside the board: true is returned. *)
C22_OutsideAfterReads ==
  /\ Probed(game_state).hit
  /\ Probed(game_state).reads # <<>>
  /\ \A c \in CellsOf(game_state.tetromino) :
        (c[1] \in 0..9 /\ c[2] \in 0..19) => At(game_state.board, c[1], c[2]).t = "None"

(* C22: all 4 cells are inside the board and one is on an occupied cell. *)
C22_InsideOccupied ==
  /\ Probed(game_state).hit
  /\ \A c \in CellsOf(game_state.tetromino) : c[1] \in 0..9 /\ c[2] \in 0..19

(* C22: false is returned after 4 reads. *)
C22_Free ==
  /\ ~Probed(game_state).hit
  /\ Len(Probed(game_state).reads) = 4

(***************************************************************************)
(* Frames of 1/30 time unit (less than the soft drop interval of 1/15)    *)
(* with no key or with the Down key held, alone or with a left or right    *)
(* key press, from a new game of O pieces.  Frames keep arriving: the      *)
(* frame action is weakly fair.                                            *)
(***************************************************************************)
MaxLocksSoft == 1

KeyRightDown == [NoKeys EXCEPT !.right = "pressed", !.down = TRUE]

InputsSoft == {NoKeys, KeyDown, KeyLeftDown, KeyRightDown}

InitSoft ==
  /\ game_state = Started("O", "O")
  /\ in_menu = FALSE
  /\ placed = 0

TickSoft == TickWith(InputsSoft, {ShortFrame}, {"O"}, MaxLocksSoft)

SpecSoft == InitSoft /\ [][TickSoft]_vars /\ WF_vars(TickSoft)

(* C23: while frames keep arriving, the active piece of a running game is
   eventually locked (lock_tetromino is called once more) or the game is
   over, whatever the keys, the Down key held in every frame among them. *)
C23_ActivePieceEventuallyLocks ==
  \A n \in 0..(MaxLocksSoft - 1) :
     (placed = n /\ ~in_menu) ~> (placed > n \/ game_state.game_over)

(* C24: a frame calls lock_tetromino at most once and takes at most one
   owner id, so that each piece placed is locked once and the id counter is
   1 more than the number of pieces placed. *)
C24_OneLockPerFrame ==
  [][/\ Len(game_state'.ev.locks) <= 1
     /\ game_state'.next_piece_id <= game_state.next_piece_id + 1]_vars

(* C25: the 16 cells of the region of every active effect are occupied and
   equal to the effect's snapshot `original`. *)
C25_RegionEqualsSnapshot ==
  \A i \in 1..Len(game_state.active_squares) :
     /\ RegionOf(game_state.board, game_state.active_squares[i].x,
                 game_state.active_squares[i].y)
           = game_state.active_squares[i].original
     /\ \A c \in RegionCells(<<game_state.active_squares[i].x,
                               game_state.active_squares[i].y>>) :
           At(game_state.board, c[1], c[2]).t # "None"

(* C26: the unwrap of process_input never met an empty slot; whenever the
   next frame would process the keys (started, not paused, not over, no line
   clear pending) there is an active piece; and once a game was started
   there is a next piece. *)
C26_ActiveSlotFilledWhenRunning ==
  /\ ~game_state.panicked
  /\ (/\ game_state.started /\ ~game_state.paused /\ ~game_state.game_over
      /\ game_state.line_clear_timer <= 0)
        => IsSome(game_state.tetromino)
  /\ (game_state.started \/ game_state.game_over)
        => IsSome(game_state.next_tetromino)

(* C26: a hold into the empty slot emptied the active slot and the spawn
   filled it again; the game goes on. *)
C26_EmptiedSlotRefilled ==
  /\ HoldIntoEmpty(game_state)
  /\ game_state.ev.spawns = 1
  /\ game_state.started
  /\ IsSome(game_state.tetromino)

(* C26: a hold into the empty slot emptied the active slot and the spawn
   failed: the slot is empty and the game is over. *)
C26_EmptySlotWhenOver ==
  /\ HoldIntoEmpty(game_state)
  /\ ~IsSome(game_state.tetromino)
  /\ game_state.game_over

(***************************************************************************)
(* Runs in which a row was removed under an active effect, with the left   *)
(* and right keys and the hard drop.                                       *)
(***************************************************************************)
(* RowsBonus: four I pieces fill columns 0-3 of rows 16-19 and the effect
   of that region is active; row 19 was completed by an upright I in column
   9 and has been removed, so the region now holds the former rows 15-18,
   its top row empty; columns 4-9 of row 16 are filled. *)
RowsBonus ==
  Replay(Started("I", "I"),
         DropAt(4, "I") \o DropUprightAt(8, "I") \o DropUprightAt(4, "I")
         \o DropAt(5, "I")
         \o DropAt(0, "I") \o DropAt(0, "I") \o DropAt(0, "I") \o DropAt(0, "I")
         \o DropUprightAt(9, "I")
         \o <<Frame(NoKeys, HalfFrame, "I"), Frame(NoKeys, HalfFrame, "I")>>
         \o DropUprightAt(9, "O"))

MaxLocksBonus == 1

InitBonus ==
  /\ game_state = RowsBonus
  /\ in_menu = FALSE
  /\ placed = 0

InputsBonus == {NoKeys, KeyUp, KeyLeft, KeyRight}

TickBonus == TickWith(InputsBonus, {HalfFrame}, {"O"}, MaxLocksBonus)

SpecBonus == InitBonus /\ [][TickBonus]_vars

(* C27: while the game is running with no line clear pending, no row of the
   board is fully occupied. *)
C27_NoFullRowWhenIdle ==
  (/\ game_state.started /\ ~game_state.game_over
   /\ game_state.clearing_lines = <<>>)
     => FullRows(game_state.board) = <<>>

(* The number of gold (silver) effects among the finalizations fs. *)
GoldIn(fs) == Cardinality({i \in 1..Len(fs) : fs[i].is_gold})

SilverIn(fs) == Cardinality({i \in 1..Len(fs) : ~fs[i].is_gold})

(* C28: a frame adds to the score 500 for each gold and 200 for each silver
   effect it finalized and nothing else, whatever it locked, dropped,
   spawned or cleared, so the score never goes down and is 500 times the
   gold plus 200 times the silver effects finalized since the game was
   started; the start of a game sets it to 0. *)
C28_ScoreOnlyByFinalization ==
  [][IF in_menu /\ ~in_menu'
     THEN game_state'.score = 0
     ELSE /\ game_state'.score =
               game_state.score + 500 * GoldIn(game_state'.ev.finalized)
                                + 200 * SilverIn(game_state'.ev.finalized)
          /\ game_state'.score >= game_state.score
          /\ game_state'.ev.finalized = <<>> =>
               game_state'.score = game_state.score]_vars

(* C28: a frame finalized a silver effect; the score is 200. *)
C28_SilverScored ==
  /\ game_state.ev.finalized # <<>>
  /\ ~game_state.ev.finalized[1].is_gold
  /\ game_state.score = 200

(* C28: a piece was locked in a frame that finalized nothing, with points
   scored before. *)
C28_LockedWithScore ==
  /\ game_state.ev.locks # <<>>
  /\ game_state.ev.finalized = <<>>
  /\ game_state.score > 0

(***************************************************************************)
(* Runs of one piece of each type, from the row it has fallen to after     *)
(* FallenSpin frames, with the rotation keys, alone and together, and the  *)
(* hold key.                                                               *)
(***************************************************************************)
MaxLocksSpin == 1

FallenSpin == 15

KeyZX == [NoKeys EXCEPT !.z = TRUE, !.x = TRUE]

InitSpin ==
  /\ game_state \in {Replay(Started(t, "O"),
                             Times(FallenSpin, Frame(NoKeys, LongFrame, "L"))) :
                        t \in TetrominoType}
  /\ in_menu = FALSE
  /\ placed = 0

InputsSpin == {NoKeys, KeyZ, KeyX, KeyZX, KeyC}

TickSpin == TickWith(InputsSpin, {LongFrame}, {"L"}, MaxLocksSpin)

SpecSpin == InitSpin /\ [][TickSpin]_vars

(* The offset c after n quarter turns about the pivot p. *)
QuarterTurns(c, p, n) ==
  CASE n = 0 -> c
    [] n = 1 -> <<p[1] + (c[2] - p[2]), p[2] - (c[1] - p[1])>>
    [] n = 2 -> <<p[1] - (c[1] - p[1]), p[2] - (c[2] - p[2])>>
    [] n = 3 -> <<p[1] - (c[2] - p[2]), p[2] + (c[1] - p[1])>>

(* The canonical shape of type t after 0, 1, 2 and 3 quarter turns about the
   pivot of t. *)
Rotations(t) ==
  {[i \in 1..4 |-> QuarterTurns(TETROMINO_SHAPES[t][i],
                                TETROMINO_ROTATION_OFFSETS[t], n)] : n \in 0..3}

(* rotate_shape applied 4 times. *)
FourTurns(shape, t, clockwise) ==
  rotate_shape(rotate_shape(rotate_shape(rotate_shape(shape, t, clockwise),
                                         t, clockwise),
                            t, clockwise),
               t, clockwise)

(* C29: the shape of the active piece is the canonical shape of its type
   after 0 to 3 quarter turns about the pivot of the type and the shape of
   the held piece is canonical; on the rotations of their types, rotate_shape
   in either direction maps the rotations one-to-one onto themselves, four
   turns in one direction give the shape back, and a turn followed by the
   opposite turn gives the shape back. *)
C29_ShapesAreRotations ==
  /\ IsSome(game_state.tetromino) =>
        game_state.tetromino.shape \in Rotations(game_state.tetromino.t_type)
  /\ IsSome(game_state.hold_tetromino) =>
        game_state.hold_tetromino.shape
           = TETROMINO_SHAPES[game_state.hold_tetromino.t_type]
  /\ \A t \in {game_state.tetromino.t_type, game_state.hold_tetromino.t_type}
                 \cap TetrominoType,
        clockwise \in BOOLEAN :
        /\ {rotate_shape(sh, t, clockwise) : sh \in Rotations(t)} = Rotations(t)
        /\ \A sh \in Rotations(t), other \in Rotations(t) :
              rotate_shape(sh, t, clockwise) = rotate_shape(other, t, clockwise)
              => sh = other
        /\ \A sh \in Rotations(t) :
              /\ FourTurns(sh, t, clockwise) = sh
              /\ rotate_shape(rotate_shape(sh, t, clockwise), t, ~clockwise) = sh

(* C29: a turned piece went into the hold slot, where it is canonical, and
   the active piece has been turned since. *)
C29_TurnedPieceHeldCanonical ==
  /\ IsSome(game_state.hold_tetromino)
  /\ game_state.hold_tetromino.t_type \in {"T", "J", "L", "S", "Z"}
  /\ game_state.ev.hold # <<>>
  /\ HoldPre(game_state).tetromino.shape
        # TETROMINO_SHAPES[HoldPre(game_state).tetromino.t_type]
  /\ game_state.hold_tetromino.t_type = HoldPre(game_state).tetromino.t_type

(* C29: the active piece is turned twice from its canonical shape. *)
C29_TurnedTwice ==
  /\ IsSome(game_state.tetromino)
  /\ game_state.tetromino.t_type = "L"
  /\ game_state.tetromino.shape
        = rotate_shape(rotate_shape(TETROMINO_SHAPES["L"], "L", TRUE), "L", TRUE)

(* In state s rows are queued exactly when the timer runs, and the queued
   rows are fully occupied rows of the board. *)
PipelineConsistent(s) ==
  /\ s.clearing_lines # <<>> <=> s.line_clear_timer > 0
  /\ \A y \in SeqToSet(s.clearing_lines) :
        /\ y \in 0..(GRID_HEIGHT - 1)
        /\ \A x \in 0..(GRID_WIDTH - 1) : At(s.board, x, y).t # "None"

(* C30: in every state rows are queued for removal exactly when the
   line-clear timer is above 0, and every queued row is a fully occupied row
   of the board; a frame that begins and ends with rows queued leaves the
   board as it is. *)
C30_PipelineConsistent ==
  [][/\ PipelineConsistent(game_state)
     /\ PipelineConsistent(game_state')
     /\ (game_state.clearing_lines # <<>> /\ game_state'.clearing_lines # <<>>)
           => game_state'.board = game_state.board]_vars

(* C30: a lock has just queued two rows and started the timer. *)
C30_TwoRowsQueued ==
  /\ game_state.ev.locks # <<>>
  /\ Len(game_state.clearing_lines) >= 2
  /\ game_state.line_clear_timer = LINE_CLEAR_DELAY

(* C30: the timer has expired and the queue is empty after rows were
   removed. *)
C30_QueueEmptied ==
  /\ game_state.ev.cleared # <<>>
  /\ game_state.clearing_lines = <<>>
  /\ game_state.line_clear_timer <= 0

(***************************************************************************)
(* Runs up to the first lock from states with an empty hold slot: a piece  *)
(* held in such a run was held by the hold into the empty slot, and no     *)
(* piece has locked since.                                                 *)
(***************************************************************************)
MaxLocksLatch == 1

InputsLatch == {NoKeys, KeyC, KeyZ}

FramesLatch == {LongFrame}

DrawsLatch == {"T"}

InitLatch ==
  /\ game_state \in {HoldTower, HoldTurned}
  /\ in_menu = FALSE
  /\ placed = 0

TickLatch == TickWith(InputsLatch, FramesLatch, DrawsLatch, MaxLocksLatch)

SpecLatch == InitLatch /\ [][TickLatch]_vars

(* The hold intent of the update that led to s was the hold into the empty
   slot, and its spawn succeeded. *)
HeldAndSpawned(s) ==
  HoldIntoEmpty(s) /\ HoldPost(s).spawns > HoldPre(s).spawns

(* The hold intent of the update that led to s swapped the active piece with
   the held piece and set hold_used. *)
SwappedWithHeld(s) ==
  /\ HoldPost(s).hold_used
  /\ HoldPost(s).tetromino =
       [Unrotated(HoldPre(s).hold_tetromino) EXCEPT !.pos = SpawnPos]
  /\ HoldPost(s).hold_tetromino = Unrotated(HoldPre(s).tetromino)

(* C31: the hold into the empty slot whose spawn succeeds leaves hold_used
   clear; a hold intent that follows it before any piece has locked is
   accepted and swaps the spawned piece with the piece just held; after that
   swap hold_used stays set until a piece spawns, and a hold intent met
   while it is set changes neither slot. *)
C31_HoldAgainAfterHoldIntoEmpty ==
  [][/\ HeldAndSpawned(game_state') =>
          /\ ~HoldPost(game_state').hold_used
          /\ ~game_state'.hold_used
     /\ (/\ placed = 0
         /\ IsSome(game_state.hold_tetromino)
         /\ ~game_state.hold_used
         /\ game_state'.ev.hold # <<>>) =>
          /\ SwappedWithHeld(game_state')
          /\ game_state'.ev.spawns = 0 => game_state'.hold_used
     /\ (game_state.hold_used /\ game_state'.ev.spawns = 0) =>
          /\ game_state'.hold_used
          /\ game_state'.ev.hold # <<>> =>
                /\ HoldPost(game_state').tetromino = HoldPre(game_state').tetromino
                /\ HoldPost(game_state').hold_tetromino
                     = HoldPre(game_state').hold_tetromino]_vars

(* C31: before any lock, the piece spawned by the hold into the empty slot
   was swapped with the piece just held, and hold_used is set. *)
C31_SwappedBeforeAnyLock ==
  /\ placed = 0
  /\ game_state.ev.hold # <<>>
  /\ HoldOntoHeld(game_state)
  /\ SwappedWithHeld(game_state)
  /\ game_state.tetromino.t_type # game_state.hold_tetromino.t_type
  /\ game_state.hold_used

(* C31: hold_used is clear after the hold into the empty slot. *)
C31_LatchClearAfterHoldIntoEmpty ==
  /\ placed = 0
  /\ HeldAndSpawned(game_state)
  /\ ~game_state.hold_used
  /\ IsSome(game_state.tetromino)

====
